---- MODULE Spec2Model ----
(***************************************************************************)
(* Comment versioning and threading model of the comment service           *)
(* (commentService: createComment / updateComment / deleteComment) over    *)
(* the COMMENTS table.  One action per service call; each action runs the  *)
(* call's statements in order on the table and commits the result, or      *)
(* throws and leaves the committed table as it was.                        *)
(*                                                                         *)
(* The collaboration rooms of the same server (roomService, the signaling  *)
(* service and the room routes) are modelled after the comment service, on *)
(* variables of their own.                                                 *)
(***************************************************************************)
EXTENDS Integers, Sequences, FiniteSets, TLC

\* ---------------------------------------------------------------- bounds
MaxRows == 3
MaxParent == 1
\* ids the table may draw in the runs that let statements fail
MaxTxRows == 2

\* ------------------------------------------------------------ input sets
\* text of a new comment (POST), and text an edit may submit (PUT): an edit
\* may keep the text or replace it
NewContents == {"c1"}
Contents == {"c1", "c2"}
Secrets == {"pw1", "pw2"}
Handles == {"h1"}

\* SQL NULL of a numeric column (ids are positive IDENTITY values)
NULL == 0 - 1
\* SQL NULL of the CONTENT column
NULL_CONTENT == "null"

\* ---------------------------------------------------------------- state
\* COMMENTS       the committed rows of the COMMENTS table
\* identity       next value of the IDENTITY column ID
\* clock          SYSTIMESTAMP
\* call           the last service call and what it returned or threw
\* createdSecret  header id -> the userPassword createComment was given
VARIABLES COMMENTS, identity, clock, call, createdSecret

\* roomStore       the rooms held by the room store
\* roomClock       the readings of Date.now() createRoom has stamped so far
\* signalingStore  the signaling store: connections and roomClients
\* sockets         the WebSockets whose close event has not fired yet
VARIABLES roomStore, roomClock, signalingStore, sockets

\* sessions       the service calls in progress, one per database session,
\*                each with the statement it has reached and the rows it
\*                has written and not committed
VARIABLES sessions

\* roomsFile      the rooms in data/rooms.json, the file of the file-backed
\*                room store
VARIABLES roomsFile

\* delivered      the signaling message the relay forwarded last: the socket
\*                it was sent on, its from and its roomCode
VARIABLES delivered

vars == <<COMMENTS, identity, clock, call, createdSecret,
          roomStore, roomClock, signalingStore, sockets, sessions, roomsFile,
          delivered>>

roomVars == <<roomStore, roomClock, signalingStore, sockets, roomsFile, delivered>>

\* ------------------------------------------------------- identity hasher
\* One-way salted hash, kept as the pair <<salt, secret>>; the empty
\* sequence is the absent hash.
hashPassword(userPassword) == <<"salt", userPassword>>

comparePassword(userPassword, hashedPassword) ==
    /\ Len(hashedPassword) = 2
    /\ hashedPassword[2] = userPassword

\* JavaScript  x || null  on a nullable number
OrNull(x) == IF x = NULL \/ x = 0 THEN NULL ELSE x

\* JavaScript  x || 1  on a nullable number
OrOne(x) == IF x = NULL \/ x = 0 THEN 1 ELSE x

\* ------------------------------------------------------ outcome of a call
Returned(op, id, content, secret, newId) ==
    [op |-> op, id |-> id, content |-> content, secret |-> secret,
     result |-> "ok", newId |-> newId, verified |-> TRUE]

\* a thrown call keeps the secret only when it got as far as comparing it
Thrown(op, id, secret, error, verified) ==
    [op |-> op, id |-> id, content |-> NULL_CONTENT,
     secret |-> IF verified THEN secret ELSE "",
     result |-> error, newId |-> NULL, verified |-> verified]

Throw(op, id, secret, error, verified) ==
    /\ call' = Thrown(op, id, secret, error, verified)
    /\ UNCHANGED <<COMMENTS, identity, clock, createdSecret>>
    /\ UNCHANGED <<roomVars, sessions>>

\* ------------------------------------------------------------ statements
\* INSERT INTO COMMENTS ... RETURNING ID (createComment)
createInsert(T, newId, now, hashedUserIP, hashedPassword, parentHeaderId, content) ==
    T \cup {[ID |-> newId,
             HASHED_USER_IP |-> hashedUserIP,
             HASHED_PASSWORD |-> hashedPassword,
             PARENT_HEADER_ID |-> OrNull(parentHeaderId),
             CONTENT |-> content,
             CREATED_AT |-> now,
             UPDATED_AT |-> now,
             IS_EDITED |-> 0,
             IS_DELETED |-> 0,
             VERSION |-> 1,
             EDITED_COMMENT_ID |-> NULL,
             HEADER_ID |-> NULL,
             TAIL_ID |-> NULL]}

\* variant: the follow-up statement sets HEADER_ID and leaves TAIL_ID unset
createUpdate_HeaderOnly(T, newId) ==
    {IF r.ID = newId THEN [r EXCEPT !.HEADER_ID = newId] ELSE r : r \in T}

\* UPDATE COMMENTS SET HEADER_ID = :newId, TAIL_ID = :newId WHERE ID = :newId
createUpdate(T, newId) ==
    {IF r.ID = newId THEN [r EXCEPT !.HEADER_ID = newId, !.TAIL_ID = newId] ELSE r
       : r \in T}

\* UPDATE COMMENTS SET IS_EDITED = 1 WHERE ID = :originalId
markEdited(T, originalId) ==
    {IF r.ID = originalId THEN [r EXCEPT !.IS_EDITED = 1] ELSE r : r \in T}

\* INSERT of the next version (updateComment)
updateInsert(T, newId, now, oldComment, newContent, hashedUserIP) ==
    T \cup {[ID |-> newId,
             HASHED_USER_IP |-> hashedUserIP,
             HASHED_PASSWORD |-> oldComment.HASHED_PASSWORD,
             PARENT_HEADER_ID |-> OrNull(oldComment.PARENT_HEADER_ID),
             CONTENT |-> newContent,
             CREATED_AT |-> now,
             UPDATED_AT |-> now,
             IS_EDITED |-> 0,
             IS_DELETED |-> 0,
             VERSION |-> OrOne(oldComment.VERSION) + 1,
             EDITED_COMMENT_ID |-> NULL,
             HEADER_ID |-> oldComment.HEADER_ID,
             TAIL_ID |-> NULL]}

\* INSERT of the tombstone version (deleteComment)
deleteInsert(T, newId, now, oldComment, hashedUserIP) ==
    T \cup {[ID |-> newId,
             HASHED_USER_IP |-> hashedUserIP,
             HASHED_PASSWORD |-> oldComment.HASHED_PASSWORD,
             PARENT_HEADER_ID |-> OrNull(oldComment.PARENT_HEADER_ID),
             CONTENT |-> NULL_CONTENT,
             CREATED_AT |-> now,
             UPDATED_AT |-> now,
             IS_EDITED |-> 0,
             IS_DELETED |-> 1,
             VERSION |-> OrOne(oldComment.VERSION) + 1,
             EDITED_COMMENT_ID |-> NULL,
             HEADER_ID |-> oldComment.HEADER_ID,
             TAIL_ID |-> NULL]}

\* UPDATE COMMENTS SET TAIL_ID = :newId WHERE ID = :newId
updateNewTail(T, newId) ==
    {IF r.ID = newId THEN [r EXCEPT !.TAIL_ID = newId] ELSE r : r \in T}

\* variant: the old tip gets the new TAIL_ID but no EDITED_COMMENT_ID
updateOldComment_TailOnly(T, newId, originalId, now) ==
    {IF r.ID = originalId
       THEN [r EXCEPT !.TAIL_ID = newId, !.UPDATED_AT = now]
       ELSE r
       : r \in T}

\* UPDATE COMMENTS SET EDITED_COMMENT_ID = :newId, TAIL_ID = :newId,
\*   UPDATED_AT = SYSTIMESTAMP WHERE ID = :originalId
updateOldComment(T, newId, originalId, now) ==
    {IF r.ID = originalId
       THEN [r EXCEPT !.EDITED_COMMENT_ID = newId, !.TAIL_ID = newId, !.UPDATED_AT = now]
       ELSE r
       : r \in T}

\* UPDATE COMMENTS SET TAIL_ID = :newId, UPDATED_AT = SYSTIMESTAMP
\*   WHERE HEADER_ID = :headerId
updateAllTail(T, newId, headerId, now) ==
    {IF r.HEADER_ID # NULL /\ r.HEADER_ID = headerId
       THEN [r EXCEPT !.TAIL_ID = newId, !.UPDATED_AT = now]
       ELSE r
       : r \in T}

\* variant: WHERE ID = :headerId, only the header row is repaired
updateOldTail_HeaderRowOnly(T, newId, headerId) ==
    {IF r.ID = headerId THEN [r EXCEPT !.TAIL_ID = newId] ELSE r : r \in T}

\* UPDATE COMMENTS SET TAIL_ID = :newId WHERE HEADER_ID = :headerId
updateOldTail(T, newId, headerId) ==
    {IF r.HEADER_ID # NULL /\ r.HEADER_ID = headerId
       THEN [r EXCEPT !.TAIL_ID = newId]
       ELSE r
       : r \in T}

\* ---------------------------------------------------------- preconditions
\* updateComment: if (oldComment.isDeleted !== 0) throw
updateIsDeleted(oldComment) == oldComment.IS_DELETED # 0

\* variant: the superseded check is missing
updateIsEdited_Unchecked(oldComment) == FALSE

\* updateComment: if (oldComment.editedCommentId !== null) throw
updateIsEdited(oldComment) == oldComment.EDITED_COMMENT_ID # NULL

\* variant: the comparison result is ignored
updateIsPasswordMatch_Ignored(userPassword, oldComment) == TRUE

\* updateComment: isPasswordMatch
updateIsPasswordMatch(userPassword, oldComment) ==
    comparePassword(userPassword, oldComment.HASHED_PASSWORD)

\* variant: the tombstone check is missing
deleteIsDeleted_Unchecked(oldComment) == FALSE

\* deleteComment: if (oldComment.isDeleted !== 0) throw
deleteIsDeleted(oldComment) == oldComment.IS_DELETED # 0

\* deleteComment: if (oldComment.editedCommentId !== null) throw
deleteIsEdited(oldComment) == oldComment.EDITED_COMMENT_ID # NULL

\* deleteComment: isPasswordMatch
deleteIsPasswordMatch(userPassword, oldComment) ==
    comparePassword(userPassword, oldComment.HASHED_PASSWORD)

\* the thrown errors, by the spec's taxonomy
InvalidState == {"AlreadyDeleted", "AlreadyEdited"}

Unauthorized == "PasswordMismatch"

\* no signaling message forwarded yet
NoDelivery == [ws |-> 0, from |-> "", roomCode |-> ""]

\* ------------------------------------------------------ database sessions
\* the calls that may be in progress at once
Slots == 1..2

\* a slot with no call in progress
Idle ==
    [op |-> "none", pc |-> "idle", at |-> 0, id |-> NULL, content |-> NULL_CONTENT,
     secret |-> "", hashedUserIP |-> "", oldComment |-> {}, headerId |-> NULL,
     newId |-> NULL, written |-> {}, seen |-> {}, connection |-> "none",
     error |-> "none", verified |-> FALSE]

\* ------------------------------------------------------------ operations
Init ==
    /\ COMMENTS = {}
    /\ identity = 1
    /\ clock = 1
    /\ call = Thrown("none", NULL, "", "none", FALSE)
    /\ createdSecret = <<>>
    /\ roomStore = {}
    /\ roomClock = 0
    /\ signalingStore = [connections |-> {}, roomClients |-> {}]
    /\ sockets = {}
    /\ sessions = [s \in Slots |-> Idle]
    /\ roomsFile = {}
    /\ delivered = NoDelivery

createComment(content, userPassword, hashedUserIP, parentHeaderId) ==
    /\ identity <= MaxRows
    /\ LET newId == identity
           hashedPassword == hashPassword(userPassword)
           t1 == createInsert(COMMENTS, newId, clock, hashedUserIP, hashedPassword,
                              parentHeaderId, content)
           t2 == createUpdate(t1, newId)
       IN /\ COMMENTS' = t2
          /\ identity' = identity + 1
          /\ clock' = clock + 1
          /\ call' = Returned("create", parentHeaderId, content, userPassword, newId)
          /\ createdSecret' = Append(createdSecret, userPassword)
          /\ UNCHANGED <<roomVars, sessions>>

updateComment(originalId, newContent, userPassword, hashedUserIP) ==
    LET oldComments == {r \in COMMENTS : r.ID = originalId} IN
    IF oldComments = {}
    THEN Throw("update", originalId, userPassword, "NotFound", FALSE)
    ELSE
    LET oldComment == CHOOSE r \in oldComments : TRUE IN
    IF oldComment.HASHED_PASSWORD = <<>>
    THEN Throw("update", originalId, userPassword, "NoHashedPassword", FALSE)
    ELSE IF updateIsDeleted(oldComment)
    THEN Throw("update", originalId, userPassword, "AlreadyDeleted", FALSE)
    ELSE IF updateIsEdited(oldComment)
    THEN Throw("update", originalId, userPassword, "AlreadyEdited", FALSE)
    ELSE IF ~updateIsPasswordMatch(userPassword, oldComment)
    THEN Throw("update", originalId, userPassword, "PasswordMismatch", TRUE)
    ELSE
    /\ identity <= MaxRows
    /\ LET newId == identity
           t1 == markEdited(COMMENTS, originalId)
           t2 == updateInsert(t1, newId, clock, oldComment, newContent, hashedUserIP)
           t3 == updateNewTail(t2, newId)
           t4 == updateOldComment(t3, newId, originalId, clock)
           t5 == updateAllTail(t4, newId, oldComment.HEADER_ID, clock)
       IN /\ COMMENTS' = t5
          /\ identity' = identity + 1
          /\ clock' = clock + 1
          /\ call' = Returned("update", originalId, newContent, userPassword, newId)
          /\ createdSecret' = Append(createdSecret, "")
          /\ UNCHANGED <<roomVars, sessions>>

deleteComment(commentId, userPassword, hashedUserIP) ==
    LET oldComments == {r \in COMMENTS : r.ID = commentId} IN
    IF oldComments = {}
    THEN Throw("delete", commentId, userPassword, "NotFound", FALSE)
    ELSE
    LET oldComment == CHOOSE r \in oldComments : TRUE IN
    IF oldComment.HASHED_PASSWORD = <<>>
    THEN Throw("delete", commentId, userPassword, "NoHashedPassword", FALSE)
    ELSE IF deleteIsDeleted(oldComment)
    THEN Throw("delete", commentId, userPassword, "AlreadyDeleted", FALSE)
    ELSE IF deleteIsEdited(oldComment)
    THEN Throw("delete", commentId, userPassword, "AlreadyEdited", FALSE)
    ELSE IF ~deleteIsPasswordMatch(userPassword, oldComment)
    THEN Throw("delete", commentId, userPassword, "PasswordMismatch", TRUE)
    ELSE
    /\ identity <= MaxRows
    /\ LET newId == identity
           t1 == markEdited(COMMENTS, commentId)
           t2 == deleteInsert(t1, newId, clock, oldComment, hashedUserIP)
           t3 == updateNewTail(t2, newId)
           t4 == updateOldTail(t3, newId, oldComment.HEADER_ID)
       IN /\ COMMENTS' = t4
          /\ identity' = identity + 1
          /\ clock' = clock + 1
          /\ call' = Returned("delete", commentId, NULL_CONTENT, userPassword, newId)
          /\ createdSecret' = Append(createdSecret, "")
          /\ UNCHANGED <<roomVars, sessions>>

\* POST: a parentHeaderId that is given must parse to a number >= 1
postParentIdRejected(parentHeaderId) == parentHeaderId # NULL /\ parentHeaderId < 1

Create ==
    \E content \in NewContents, userPassword \in Secrets, hashedUserIP \in Handles,
       parentHeaderId \in {NULL} \cup (0..MaxParent) :
        IF postParentIdRejected(parentHeaderId)
        THEN Throw("create", parentHeaderId, "", "BadRequest", FALSE)
        ELSE createComment(content, userPassword, hashedUserIP, parentHeaderId)

Update ==
    \E originalId \in 1..identity, newContent \in Contents, userPassword \in Secrets,
       hashedUserIP \in Handles :
        updateComment(originalId, newContent, userPassword, hashedUserIP)

Delete ==
    \E commentId \in 1..identity, userPassword \in Secrets, hashedUserIP \in Handles :
        deleteComment(commentId, userPassword, hashedUserIP)

Next == Create \/ Update \/ Delete

Spec == Init /\ [][Next]_vars

\* ------------------------------------------------------- reading the table
\* SELECT ... FROM COMMENTS WHERE ID = :id  (the single row, when it exists)
RowOf(T, id) == CHOOSE r \in T : r.ID = id

Ids(T) == {r.ID : r \in T}

\* the rows WHERE HEADER_ID = :headerId
Chain(T, headerId) == {r \in T : r.HEADER_ID = headerId}

HeaderIds(T) == {r.HEADER_ID : r \in T}

\* a chain is tombstoned once a row with IS_DELETED = 1 was inserted into it
Tombstoned(T, headerId) == \E r \in Chain(T, headerId) : r.IS_DELETED = 1

\* the row most recently inserted into a chain (ids are handed out in order)
LastInserted(T, headerId) ==
    CHOOSE r \in Chain(T, headerId) : \A q \in Chain(T, headerId) : q.ID <= r.ID

\* the live row of a chain: IS_DELETED = 0 and not superseded
IsLive(r) == r.IS_DELETED = 0 /\ r.EDITED_COMMENT_ID = NULL

\* ------------------------------------------------------------------ claims

\* C1: after any sequence of committed create / update / delete calls, every
\* chain has exactly one row with editedCommentId = null, and when the chain
\* has been tombstoned that row is the tombstone row (content = null).
C1_OneOpenRowPerChain ==
    \A h \in HeaderIds(COMMENTS) :
        LET open == {r \in Chain(COMMENTS, h) : r.EDITED_COMMENT_ID = NULL} IN
        /\ Cardinality(open) = 1
        /\ Tombstoned(COMMENTS, h) =>
              \A r \in open : r.IS_DELETED = 1 /\ r.CONTENT = NULL_CONTENT

\* C2: TOMBSTONED is terminal: once deleteComment has succeeded on a chain,
\* every later updateComment or deleteComment that targets any row of that
\* chain fails and adds no row to the chain.
C2_TombstonedIsTerminal ==
    [][\A h \in HeaderIds(COMMENTS) :
          Tombstoned(COMMENTS, h) =>
             /\ Ids(Chain(COMMENTS', h)) = Ids(Chain(COMMENTS, h))
             /\ (call'.op \in {"update", "delete"}
                   /\ call'.id \in Ids(Chain(COMMENTS, h)))
                  => call'.result # "ok"]_vars

\* C3: the version numbers of the rows sharing a headerId are exactly 1..N,
\* each occurring once (no gaps, no repeats).
C3_VersionsContiguous ==
    \A h \in HeaderIds(COMMENTS) :
        LET rows == Chain(COMMENTS, h) IN
        /\ {r.VERSION : r \in rows} = 1..Cardinality(rows)
        /\ \A r, q \in rows : r.VERSION = q.VERSION => r = q

\* C4: in every committed state all rows sharing a headerId carry the same
\* tailId, and that tailId is the id of the row most recently inserted into
\* the chain (the live row, or the tombstone row after a delete).
C4_TailIsLastInserted ==
    \A h \in HeaderIds(COMMENTS) :
        \A r \in Chain(COMMENTS, h) : r.TAIL_ID = LastInserted(COMMENTS, h).ID

\* a chain of three versions whose last mutation was a delete or an update
C4_Witness ==
    /\ call.result = "ok"
    /\ call.op \in {"update", "delete"}
    /\ \E h \in HeaderIds(COMMENTS) :
          /\ Cardinality(Chain(COMMENTS, h)) >= 3
          /\ call.newId \in Ids(Chain(COMMENTS, h))

\* C5: updateComment on a row whose editedCommentId is non-null always fails
\* with the InvalidState error, whatever password is given, and leaves every
\* row of the store unchanged.
C5_UpdateSupersededRejected ==
    [][(/\ call'.op = "update"
        /\ call'.id \in Ids(COMMENTS)
        /\ RowOf(COMMENTS, call'.id).EDITED_COMMENT_ID # NULL)
         => /\ call'.result \in InvalidState
            /\ COMMENTS' = COMMENTS
            /\ identity' = identity]_vars

\* an update of a superseded row was rejected
C5_Witness ==
    /\ call.op = "update"
    /\ call.result = "AlreadyEdited"
    /\ call.id \in Ids(COMMENTS)
    /\ RowOf(COMMENTS, call.id).EDITED_COMMENT_ID # NULL

\* C6: updateComment and deleteComment on a row that was inserted as a
\* tombstone (isDeleted = 1) always fail with the InvalidState error, before
\* the password is verified and without changing any row.
C6_TombstoneRowRejected ==
    [][(/\ call'.op \in {"update", "delete"}
        /\ call'.id \in Ids(COMMENTS)
        /\ RowOf(COMMENTS, call'.id).IS_DELETED = 1)
         => /\ call'.result \in InvalidState
            /\ ~call'.verified
            /\ COMMENTS' = COMMENTS
            /\ identity' = identity]_vars

\* a delete of a tombstone row was rejected
C6_Witness ==
    /\ call.op = "delete"
    /\ call.result = "AlreadyDeleted"
    /\ call.id \in Ids(COMMENTS)
    /\ RowOf(COMMENTS, call.id).IS_DELETED = 1

\* C7: updateComment and deleteComment on an existing live row succeed only
\* with a secret that verifies against the row's stored secretHash; a secret
\* that does not verify fails with Unauthorized and leaves the store
\* unchanged; and the only secret that verifies for any row of a chain is the
\* one given to createComment for that chain.
C7_SecretGovernsChain ==
    [][/\ (/\ call'.op \in {"update", "delete"}
           /\ call'.id \in Ids(COMMENTS)
           /\ IsLive(RowOf(COMMENTS, call'.id)))
            => IF comparePassword(call'.secret, RowOf(COMMENTS, call'.id).HASHED_PASSWORD)
               THEN call'.result = "ok"
               ELSE /\ call'.result = Unauthorized
                    /\ COMMENTS' = COMMENTS
                    /\ identity' = identity
       /\ \A r \in COMMENTS' : \A s \in Secrets :
             comparePassword(s, r.HASHED_PASSWORD) <=> s = createdSecret'[r.HEADER_ID]]_vars

\* a wrong secret was rejected on the second version of a chain
C7_Witness ==
    /\ call.op \in {"update", "delete"}
    /\ call.result = Unauthorized
    /\ call.id \in Ids(COMMENTS)
    /\ RowOf(COMMENTS, call.id).VERSION = 2
    /\ ~comparePassword(call.secret, RowOf(COMMENTS, call.id).HASHED_PASSWORD)

\* C8: a successful updateComment(targetId, newContent, secret) returns the id
\* of a newly inserted row; the target row has isEdited = 1 and
\* editedCommentId = newId, and the new row has content = newContent,
\* version = target.version + 1, the target's headerId and parentHeaderId,
\* isDeleted = 0, editedCommentId = null and tailId = newId.
C8_UpdateEffect ==
    [][(call'.op = "update" /\ call'.result = "ok")
         => /\ call'.newId \notin Ids(COMMENTS)
            /\ Ids(COMMENTS') = Ids(COMMENTS) \cup {call'.newId}
            /\ LET old == RowOf(COMMENTS, call'.id)
                   target == RowOf(COMMENTS', call'.id)
                   new == RowOf(COMMENTS', call'.newId)
               IN /\ target.IS_EDITED = 1
                  /\ target.EDITED_COMMENT_ID = call'.newId
                  /\ new.CONTENT = call'.content
                  /\ new.VERSION = old.VERSION + 1
                  /\ new.HEADER_ID = old.HEADER_ID
                  /\ new.PARENT_HEADER_ID = old.PARENT_HEADER_ID
                  /\ new.IS_DELETED = 0
                  /\ new.EDITED_COMMENT_ID = NULL
                  /\ new.TAIL_ID = call'.newId]_vars

\* an update of a reply replaced its content
C8_Witness ==
    /\ call.op = "update"
    /\ call.result = "ok"
    /\ RowOf(COMMENTS, call.id).PARENT_HEADER_ID # NULL
    /\ RowOf(COMMENTS, call.id).CONTENT # RowOf(COMMENTS, call.newId).CONTENT

\* C9: a successful deleteComment(targetId, secret) returns the id of a newly
\* inserted tombstone row (content = null, isDeleted = 1, version =
\* target.version + 1, same headerId) and relinks the target row: after the
\* commit the target row has isEdited = 1, editedCommentId = tombstoneId and
\* tailId = tombstoneId.
C9_DeleteEffect ==
    [][(call'.op = "delete" /\ call'.result = "ok")
         => /\ call'.newId \notin Ids(COMMENTS)
            /\ Ids(COMMENTS') = Ids(COMMENTS) \cup {call'.newId}
            /\ LET old == RowOf(COMMENTS, call'.id)
                   target == RowOf(COMMENTS', call'.id)
                   new == RowOf(COMMENTS', call'.newId)
               IN /\ new.CONTENT = NULL_CONTENT
                  /\ new.IS_DELETED = 1
                  /\ new.VERSION = old.VERSION + 1
                  /\ new.HEADER_ID = old.HEADER_ID
                  /\ target.IS_EDITED = 1
                  /\ target.EDITED_COMMENT_ID = call'.newId
                  /\ target.TAIL_ID = call'.newId]_vars

\* C10: a successful createComment commits exactly one new row with
\* version = 1, isEdited = 0, isDeleted = 0, editedCommentId = null and
\* headerId = tailId = its own id; no committed state contains a row whose
\* headerId or tailId is null.
C10_CreateEffect ==
    [][/\ (call'.op = "create" /\ call'.result = "ok")
            => /\ call'.newId \notin Ids(COMMENTS)
               /\ COMMENTS \subseteq COMMENTS'
               /\ Cardinality(COMMENTS' \ COMMENTS) = 1
               /\ LET new == RowOf(COMMENTS', call'.newId)
                  IN /\ new \notin COMMENTS
                     /\ new.VERSION = 1
                     /\ new.IS_EDITED = 0
                     /\ new.IS_DELETED = 0
                     /\ new.EDITED_COMMENT_ID = NULL
                     /\ new.HEADER_ID = new.ID
                     /\ new.TAIL_ID = new.ID
       /\ \A r \in COMMENTS' : r.HEADER_ID # NULL /\ r.TAIL_ID # NULL]_vars

\* a reply chain was created next to an existing chain
C10_Witness ==
    /\ call.op = "create"
    /\ call.result = "ok"
    /\ Cardinality(COMMENTS) >= 2
    /\ RowOf(COMMENTS, call.newId).PARENT_HEADER_ID # NULL

\* ------------------------------------------------------- getCommentHistory
\* reads the CLOB of the CONTENT column into its text
handleLob(content) == content

\* variant: the lookup returns the row's own ID as the chain identifier
headerSql_OwnId(T, commentId) == {r.ID : r \in {q \in T : q.ID = commentId}}

\* SELECT HEADER_ID FROM COMMENTS WHERE ID = :commentId
headerSql(T, commentId) == {r.HEADER_ID : r \in {q \in T : q.ID = commentId}}

\* ORDER BY VERSION ASC
RECURSIVE OrderByVersion(_)
OrderByVersion(S) ==
    IF S = {} THEN <<>>
    ELSE LET first == CHOOSE r \in S : \A q \in S : r.VERSION <= q.VERSION
         IN <<first>> \o OrderByVersion(S \ {first})

\* variant: the IS_DELETED = 0 condition is missing
historySql_AllRows(T, headerId) ==
    OrderByVersion({r \in T : r.HEADER_ID = headerId})

\* SELECT ... FROM COMMENTS WHERE HEADER_ID = :headerId AND IS_DELETED = 0
\*   ORDER BY VERSION ASC
historySql(T, headerId) ==
    OrderByVersion({r \in T : r.HEADER_ID = headerId /\ r.IS_DELETED = 0})

\* the Comment object built from one row of the history query
historyComment(row) ==
    [id |-> row.ID,
     parentHeaderId |-> row.PARENT_HEADER_ID,
     content |-> IF row.CONTENT # NULL_CONTENT THEN handleLob(row.CONTENT) ELSE row.CONTENT,
     createdAt |-> row.CREATED_AT,
     updatedAt |-> row.UPDATED_AT,
     isEdited |-> row.IS_EDITED,
     isDeleted |-> row.IS_DELETED,
     version |-> row.VERSION,
     editedCommentId |-> row.EDITED_COMMENT_ID,
     headerId |-> row.HEADER_ID,
     tailId |-> row.TAIL_ID,
     hashedUserIP |-> row.HASHED_USER_IP,
     hashedPassword |-> row.HASHED_PASSWORD]

getCommentHistory(T, commentId) ==
    LET headerRows == headerSql(T, commentId) IN
    IF headerRows = {}
    THEN [result |-> "HistoryNotFound", history |-> <<>>]
    ELSE LET headerId == CHOOSE h \in headerRows : TRUE
             rows == historySql(T, headerId)
         IN [result |-> "ok",
             history |-> [i \in 1..Len(rows) |-> historyComment(rows[i])]]

\* the contents of a returned history, in the returned order
HistoryContents(T, commentId) ==
    LET h == getCommentHistory(T, commentId).history
    IN [i \in 1..Len(h) |-> h[i].content]

\* C11: getCommentHistory returns exactly the rows of the chain with
\* isDeleted = 0, in ascending version order; create(c, p, null) then
\* update(id, c2, p) yields contents [c, c2], and a later delete leaves the
\* list of contents unchanged (the tombstone row is omitted, earlier versions
\* stay visible).
C11_HistoryOfChain ==
    [][/\ \A id \in (IF COMMENTS' # COMMENTS THEN Ids(COMMENTS') ELSE {}) :
            LET got == getCommentHistory(COMMENTS', id)
                h == got.history
                kept == {r \in Chain(COMMENTS', RowOf(COMMENTS', id).HEADER_ID) :
                            r.IS_DELETED = 0}
            IN /\ got.result = "ok"
               /\ Len(h) = Cardinality(kept)
               /\ \A i \in 1..Len(h) :
                     /\ h[i].id \in Ids(kept)
                     /\ h[i].content = RowOf(COMMENTS', h[i].id).CONTENT
               /\ \A i, j \in 1..Len(h) : i < j => h[i].version < h[j].version
       /\ (call'.op = "update" /\ call'.result = "ok"
             /\ RowOf(COMMENTS, call'.id).VERSION = 1)
            => HistoryContents(COMMENTS', call'.id)
                 = <<RowOf(COMMENTS, call'.id).CONTENT, call'.content>>
       /\ (call'.op = "delete" /\ call'.result = "ok")
            => /\ \A id \in Ids(COMMENTS) :
                     HistoryContents(COMMENTS', id) = HistoryContents(COMMENTS, id)
               /\ HistoryContents(COMMENTS', call'.newId)
                     = HistoryContents(COMMENTS, call'.id)]_vars

\* a chain was created, edited to another text and then deleted
C11_Witness ==
    /\ call.op = "delete"
    /\ call.result = "ok"
    /\ Len(HistoryContents(COMMENTS, call.newId)) = 2
    /\ HistoryContents(COMMENTS, call.newId)[1] # HistoryContents(COMMENTS, call.newId)[2]

\* C12: for any two ids a and b of rows in the same chain (including the id
\* of a tombstone row), getCommentHistory(a) and getCommentHistory(b) return
\* the same ordered list in every committed state.
C12_HistorySameForChain ==
    \A a, b \in Ids(COMMENTS) :
        RowOf(COMMENTS, a).HEADER_ID = RowOf(COMMENTS, b).HEADER_ID
          => getCommentHistory(COMMENTS, a) = getCommentHistory(COMMENTS, b)

\* a chain of an edited version and a tombstone, queried through each row
C12_Witness ==
    \E h \in HeaderIds(COMMENTS) :
        /\ Cardinality(Chain(COMMENTS, h)) = 3
        /\ Tombstoned(COMMENTS, h)
        /\ Len(getCommentHistory(COMMENTS, h).history) = 2

\* ------------------------------------------------------------ transactions
\* A connection's view of the table: the committed rows every connection
\* sees, and the rows as this connection's uncommitted statements left them.
getConnection(T) == [committed |-> T, working |-> T]

\* variant: statements are executed with autoCommit: true
ExecuteOptions_AutoCommit == [autoCommit |-> TRUE]

\* the options every statement of the three mutating calls is executed with
ExecuteOptions == [autoCommit |-> FALSE]

\* connection.execute(sql, binds, options): T1 is the table the statement
\* produces from the connection's working rows
execute(tx, T1, options) ==
    [committed |-> IF options.autoCommit THEN T1 ELSE tx.committed,
     working |-> T1]

\* connection.rollback() in the catch block
rollback(tx) == [committed |-> tx.committed, working |-> tx.committed]

\* connection.close() in the finally block: uncommitted work is discarded
close(tx) == tx.committed

\* what a failing store call throws: getConnection without its environment
\* variables, or a driver error (ORA-...) from a statement or the commit
ConfigError == "ConfigError"

StoreError == "StoreError"

\* the INSERT came back without the new id in its out binds
NoNewId == "NoNewId"

StoreErrors == {ConfigError, StoreError, NoNewId}

\* the steps of each call that can throw: 0 is getConnection, then the
\* statements in order, then the commit
CreateSteps == 0..3

UpdateSteps == 0..6

DeleteSteps == 0..5

\* the step whose INSERT draws the IDENTITY value; a drawn value is not
\* given back by a rollback
CreateInsertStep == 1

UpdateInsertStep == 2

DeleteInsertStep == 2

\* a call that threw at failAt, after rollback and close
Failed(op, id, secret, error, verified, tx, drawn) ==
    /\ COMMENTS' = close(rollback(tx))
    /\ call' = Thrown(op, id, secret, error, verified)
    /\ identity' = IF drawn THEN identity + 1 ELSE identity
    /\ createdSecret' = IF drawn THEN Append(createdSecret, "") ELSE createdSecret
    /\ UNCHANGED clock
    /\ UNCHANGED <<roomVars, sessions>>

createCommentFails(content, userPassword, hashedUserIP, parentHeaderId, failAt, error) ==
    /\ error = ConfigError => failAt = 0
    /\ error = NoNewId => failAt = CreateInsertStep + 1
    /\ failAt > CreateInsertStep => identity <= MaxTxRows
    /\ LET newId == identity
           hashedPassword == hashPassword(userPassword)
           x0 == getConnection(COMMENTS)
           x1 == execute(x0, createInsert(x0.working, newId, clock, hashedUserIP,
                                          hashedPassword, parentHeaderId, content),
                         ExecuteOptions)
           x2 == execute(x1, createUpdate(x1.working, newId), ExecuteOptions)
           tx == CASE failAt \in {0, 1} -> x0
                   [] failAt = 2 -> x1
                   [] failAt = 3 -> x2
       IN Failed("create", parentHeaderId, "", error, FALSE, tx,
                 failAt > CreateInsertStep)

updateCommentFails(originalId, newContent, userPassword, hashedUserIP, failAt, error) ==
    /\ error = ConfigError => failAt = 0
    /\ error = NoNewId => failAt = UpdateInsertStep + 1
    /\ failAt > UpdateInsertStep => identity <= MaxTxRows
    /\ IF failAt = 0
       THEN Failed("update", originalId, "", error, FALSE, getConnection(COMMENTS), FALSE)
       ELSE
       /\ \E oldComment \in COMMENTS :
            /\ oldComment.ID = originalId
            /\ oldComment.HASHED_PASSWORD # <<>>
            /\ ~updateIsDeleted(oldComment)
            /\ ~updateIsEdited(oldComment)
            /\ updateIsPasswordMatch(userPassword, oldComment)
            /\ LET newId == identity
                   x0 == getConnection(COMMENTS)
                   x1 == execute(x0, markEdited(x0.working, originalId), ExecuteOptions)
                   x2 == execute(x1, updateInsert(x1.working, newId, clock, oldComment,
                                                  newContent, hashedUserIP),
                                 ExecuteOptions)
                   x3 == execute(x2, updateNewTail(x2.working, newId), ExecuteOptions)
                   x4 == execute(x3, updateOldComment(x3.working, newId, originalId, clock),
                                 ExecuteOptions)
                   x5 == execute(x4, updateAllTail(x4.working, newId, oldComment.HEADER_ID,
                                                   clock),
                                 ExecuteOptions)
                   tx == CASE failAt = 1 -> x0
                           [] failAt = 2 -> x1
                           [] failAt = 3 -> x2
                           [] failAt = 4 -> x3
                           [] failAt = 5 -> x4
                           [] failAt = 6 -> x5
               IN Failed("update", originalId, userPassword, error, TRUE, tx,
                         failAt > UpdateInsertStep)

deleteCommentFails(commentId, userPassword, hashedUserIP, failAt, error) ==
    /\ error = ConfigError => failAt = 0
    /\ error = NoNewId => failAt = DeleteInsertStep + 1
    /\ failAt > DeleteInsertStep => identity <= MaxTxRows
    /\ IF failAt = 0
       THEN Failed("delete", commentId, "", error, FALSE, getConnection(COMMENTS), FALSE)
       ELSE
       /\ \E oldComment \in COMMENTS :
            /\ oldComment.ID = commentId
            /\ oldComment.HASHED_PASSWORD # <<>>
            /\ ~deleteIsDeleted(oldComment)
            /\ ~deleteIsEdited(oldComment)
            /\ deleteIsPasswordMatch(userPassword, oldComment)
            /\ LET newId == identity
                   x0 == getConnection(COMMENTS)
                   x1 == execute(x0, markEdited(x0.working, commentId), ExecuteOptions)
                   x2 == execute(x1, deleteInsert(x1.working, newId, clock, oldComment,
                                                  hashedUserIP),
                                 ExecuteOptions)
                   x3 == execute(x2, updateNewTail(x2.working, newId), ExecuteOptions)
                   x4 == execute(x3, updateOldTail(x3.working, newId, oldComment.HEADER_ID),
                                 ExecuteOptions)
                   tx == CASE failAt = 1 -> x0
                           [] failAt = 2 -> x1
                           [] failAt = 3 -> x2
                           [] failAt = 4 -> x3
                           [] failAt = 5 -> x4
               IN Failed("delete", commentId, userPassword, error, TRUE, tx,
                         failAt > DeleteInsertStep)

CreateFails ==
    \E content \in NewContents, userPassword \in Secrets, hashedUserIP \in Handles,
       parentHeaderId \in {NULL} \cup (1..MaxParent),
       failAt \in CreateSteps, error \in StoreErrors :
        createCommentFails(content, userPassword, hashedUserIP, parentHeaderId,
                           failAt, error)

UpdateFails ==
    \E originalId \in 1..identity, newContent \in Contents, userPassword \in Secrets,
       hashedUserIP \in Handles, failAt \in UpdateSteps,
       error \in StoreErrors :
        updateCommentFails(originalId, newContent, userPassword, hashedUserIP,
                           failAt, error)

DeleteFails ==
    \E commentId \in 1..identity, userPassword \in Secrets, hashedUserIP \in Handles,
       failAt \in DeleteSteps, error \in StoreErrors :
        deleteCommentFails(commentId, userPassword, hashedUserIP, failAt, error)

NextTx ==
    \/ Next /\ identity' <= MaxTxRows + 1
    \/ CreateFails
    \/ UpdateFails
    \/ DeleteFails

SpecTx == Init /\ [][NextTx]_vars

\* C13: when a statement of createComment, updateComment or deleteComment
\* (or the commit) throws, the call re-throws and the committed table is
\* exactly the table before the call: no IS_EDITED flip, no new row and no
\* TAIL_ID change survives.
C13_FailureLeavesStore ==
    [][call'.result \in StoreErrors => COMMENTS' = COMMENTS]_vars

\* a call that threw after its INSERT had drawn an id: the id is gone, the
\* row is not in the table and the targeted row is still the open live row
C13_Witness ==
    /\ call.result = StoreError
    /\ call.op \in {"update", "delete"}
    /\ identity - 1 > Cardinality(COMMENTS)
    /\ \E r \in COMMENTS : r.ID = call.id /\ r.IS_EDITED = 0 /\ r.TAIL_ID = r.ID

\* --------------------------------------------------------------- getComments
MaxPage == 3
MaxLimit == 2

Pages == 1..MaxPage

Limits == 1..MaxLimit

\* SELECT COUNT(*) FROM COMMENTS WHERE PARENT_HEADER_ID IS NULL AND ID = TAIL_ID
countSql(T) ==
    Cardinality({r \in T : r.PARENT_HEADER_ID = NULL /\ r.ID = r.TAIL_ID})

\* the rows  c JOIN p ON c.HEADER_ID = p.ID  pairs c with
JoinHeader(T, c) == {p \in T : c.HEADER_ID = p.ID}

\* variant: the page is ordered by the tail row's own CREATED_AT
parentOrderKey_OwnRow(c, p) == c.CREATED_AT

\* ORDER BY p.CREATED_AT of parentSql
parentOrderKey(c, p) == p.CREATED_AT

\* ORDER BY key DESC over a set of [key, row] pairs, row the row's ID
RECURSIVE OrderByKeyDesc(_)
OrderByKeyDesc(P) ==
    IF P = {} THEN <<>>
    ELSE LET first == CHOOSE x \in P : \A y \in P : y.key <= x.key
         IN <<first.row>> \o OrderByKeyDesc(P \ {first})

\* ORDER BY key ASC over a set of [key, row] pairs, row the row's ID
RECURSIVE OrderByKeyAsc(_)
OrderByKeyAsc(P) ==
    IF P = {} THEN <<>>
    ELSE LET first == CHOOSE x \in P : \A y \in P : x.key <= y.key
         IN <<first.row>> \o OrderByKeyAsc(P \ {first})

\* OFFSET :offset ROWS FETCH NEXT :limit ROWS ONLY
OffsetFetch(rows, offset, limit) ==
    IF offset >= Len(rows) THEN <<>>
    ELSE SubSeq(rows, offset + 1,
                IF offset + limit <= Len(rows) THEN offset + limit ELSE Len(rows))

\* the columns parentSql selects, CONTENT read through handleLob
parentRow(c) ==
    [ID |-> c.ID,
     HASHED_USER_IP |-> c.HASHED_USER_IP,
     CONTENT |-> IF c.CONTENT # NULL_CONTENT THEN handleLob(c.CONTENT) ELSE NULL_CONTENT,
     CREATED_AT |-> c.CREATED_AT,
     UPDATED_AT |-> c.UPDATED_AT,
     IS_EDITED |-> c.IS_EDITED,
     IS_DELETED |-> c.IS_DELETED,
     VERSION |-> c.VERSION,
     HEADER_ID |-> c.HEADER_ID,
     TAIL_ID |-> c.TAIL_ID,
     PARENT_HEADER_ID |-> c.PARENT_HEADER_ID,
     EDITED_COMMENT_ID |-> c.EDITED_COMMENT_ID]

parentSql(T, offset, limit) ==
    LET ordered ==
          OffsetFetch(
            OrderByKeyDesc(UNION {{[key |-> parentOrderKey(c, p), row |-> c.ID] :
                                      p \in JoinHeader(T, c)} :
                                    c \in {c \in T : /\ c.PARENT_HEADER_ID = NULL
                                                     /\ c.ID = c.TAIL_ID}}),
            offset, limit)
    IN [i \in 1..Len(ordered) |-> parentRow(RowOf(T, ordered[i]))]

\* the columns childrenSql selects, CONTENT read through handleLob
childRow(c) ==
    [ID |-> c.ID,
     parentHeaderId |-> c.PARENT_HEADER_ID,
     CONTENT |-> IF c.CONTENT # NULL_CONTENT THEN handleLob(c.CONTENT) ELSE NULL_CONTENT,
     CREATED_AT |-> c.CREATED_AT,
     UPDATED_AT |-> c.UPDATED_AT,
     IS_EDITED |-> c.IS_EDITED,
     IS_DELETED |-> c.IS_DELETED,
     VERSION |-> c.VERSION,
     EDITED_COMMENT_ID |-> c.EDITED_COMMENT_ID,
     HEADER_ID |-> c.HEADER_ID,
     TAIL_ID |-> c.TAIL_ID,
     HASHED_USER_IP |-> c.HASHED_USER_IP]

\* variant: the replies come back newest chain first
childrenSql_Desc(T, headerIds) ==
    LET ordered ==
          OrderByKeyDesc(UNION {{[key |-> p.CREATED_AT, row |-> c.ID] :
                                    p \in JoinHeader(T, c)} :
                                  c \in {c \in T : /\ c.PARENT_HEADER_ID \in headerIds
                                                   /\ c.ID = c.TAIL_ID}})
    IN [i \in 1..Len(ordered) |-> childRow(RowOf(T, ordered[i]))]

\* ... WHERE c.PARENT_HEADER_ID IN (:id0, ...) AND c.ID = c.TAIL_ID
\*     ORDER BY p.CREATED_AT ASC
childrenSql(T, headerIds) ==
    LET ordered ==
          OrderByKeyAsc(UNION {{[key |-> p.CREATED_AT, row |-> c.ID] :
                                   p \in JoinHeader(T, c)} :
                                 c \in {c \in T : /\ c.PARENT_HEADER_ID \in headerIds
                                                  /\ c.ID = c.TAIL_ID}})
    IN [i \in 1..Len(ordered) |-> childRow(RowOf(T, ordered[i]))]

\* childrenByParent[key]: the children pushed under key, in result order
childrenByParent(childrenRows, key) ==
    SelectSeq(childrenRows, LAMBDA child : child.parentHeaderId # NULL
                                            /\ child.parentHeaderId = key)

getComments(T, page, limit) ==
    LET totalCount == countSql(T)
        offset == (page - 1) * limit
        parentRows == parentSql(T, offset, limit)
        headerIds == {parentRows[i].HEADER_ID : i \in 1..Len(parentRows)} \ {NULL}
        childrenRows == IF headerIds # {} THEN childrenSql(T, headerIds) ELSE <<>>
        combinedComments ==
            [i \in 1..Len(parentRows) |->
                [parent |-> parentRows[i],
                 children |-> childrenByParent(childrenRows, parentRows[i].HEADER_ID)]]
    IN [comments |-> combinedComments, totalCount |-> totalCount]

\* --------------------------------------------------------- reading a thread
\* the chains whose rows have PARENT_HEADER_ID null
RootChains(T) == {h \in HeaderIds(T) : \A r \in Chain(T, h) : r.PARENT_HEADER_ID = NULL}

\* the reply chains filed under a root chain
ReplyChains(T, h) == {g \in HeaderIds(T) : \A r \in Chain(T, g) : r.PARENT_HEADER_ID = h}

\* creation time of a chain's version-1 row
Origin(T, h) == CHOOSE r \in Chain(T, h) : r.VERSION = 1 /\ r.ID = h

\* position of a chain among S, newest origin first
RankNewest(T, S, h) ==
    1 + Cardinality({g \in S : Origin(T, g).CREATED_AT > Origin(T, h).CREATED_AT})

\* position of a chain among S, oldest origin first
RankOldest(T, S, h) ==
    1 + Cardinality({g \in S : Origin(T, g).CREATED_AT < Origin(T, h).CREATED_AT})

\* the header ids of the roots a getComments result holds
PageRoots(result) ==
    [i \in 1..Len(result.comments) |-> result.comments[i].parent.HEADER_ID]

\* the roots of pages 1..page, one page after the other
RECURSIVE RootsThrough(_, _, _)
RootsThrough(T, page, limit) ==
    IF page = 0 THEN <<>>
    ELSE RootsThrough(T, page - 1, limit) \o PageRoots(getComments(T, page, limit))

C14_Page(T) ==
    LET roots == RootChains(T) IN
    \A page \in Pages, limit \in Limits :
        LET result == getComments(T, page, limit)
            onPage == {h \in roots :
                         /\ RankNewest(T, roots, h) >= (page - 1) * limit + 1
                         /\ RankNewest(T, roots, h) <= page * limit}
        IN /\ result.totalCount = Cardinality(roots)
           /\ Len(result.comments) = Cardinality(onPage)
           /\ \A i \in 1..Len(result.comments) :
                 LET item == result.comments[i].parent IN
                 /\ item.HEADER_ID \in onPage
                 /\ RankNewest(T, roots, item.HEADER_ID) = (page - 1) * limit + i
                 /\ item.ID = LastInserted(T, item.HEADER_ID).ID
                 /\ item.ID = item.TAIL_ID

C14_Once(T) ==
    \A limit \in Limits :
        LET all == RootsThrough(T, MaxPage, limit)
        IN \A h \in RootChains(T) : Cardinality({i \in DOMAIN all : all[i] = h}) = 1

C14_Holds(T) == C14_Page(T) /\ C14_Once(T)

\* C14: getComments(page, limit) returns as totalCount the number of root
\* chains, whatever edits, deletes or replies were applied, and as items the
\* current tail rows of the root chains ranked (page-1)*limit+1 .. page*limit
\* by the creation time of their version-1 row, newest first; each root chain
\* is on exactly one page.
C14_RootPage ==
    /\ COMMENTS = {} => C14_Holds(COMMENTS)
    /\ [][COMMENTS' # COMMENTS => C14_Holds(COMMENTS')]_vars

\* two root chains, the older one edited after the newer was created: page 1
\* of size 1 holds the newer root, page 2 the new tail of the older root
C14_Witness ==
    /\ Cardinality(RootChains(COMMENTS)) = 2
    /\ getComments(COMMENTS, 1, 1).totalCount = 2
    /\ \E h \in RootChains(COMMENTS) :
          /\ Cardinality(Chain(COMMENTS, h)) = 2
          /\ PageRoots(getComments(COMMENTS, 2, 1)) = <<h>>
          /\ getComments(COMMENTS, 2, 1).comments[1].parent.ID
                > PageRoots(getComments(COMMENTS, 1, 1))[1]

\* ------------------------------------------------------------ GET /comments
\* new Date(x).toISOString(): the timestamp as text
toISOString(t) == <<"ISO", t>>

\* the child fields the route hands to the client
childResponse(child) ==
    [id |-> child.ID,
     parentHeaderId |-> child.parentHeaderId,
     content |-> child.CONTENT,
     createdAt |-> toISOString(child.CREATED_AT),
     updatedAt |-> toISOString(child.UPDATED_AT),
     isEdited |-> child.IS_EDITED,
     isDeleted |-> child.IS_DELETED,
     version |-> child.VERSION,
     editedCommentId |-> child.EDITED_COMMENT_ID,
     headerId |-> child.HEADER_ID,
     tailId |-> child.TAIL_ID,
     hashedUser |-> child.HASHED_USER_IP]

\* the fields of a root comment the route hands to the client
commentResponse(item) ==
    [id |-> item.parent.ID,
     parentHeaderId |-> item.parent.PARENT_HEADER_ID,
     content |-> item.parent.CONTENT,
     createdAt |-> toISOString(item.parent.CREATED_AT),
     updatedAt |-> toISOString(item.parent.UPDATED_AT),
     isEdited |-> item.parent.IS_EDITED,
     isDeleted |-> item.parent.IS_DELETED,
     version |-> item.parent.VERSION,
     editedCommentId |-> item.parent.EDITED_COMMENT_ID,
     headerId |-> item.parent.HEADER_ID,
     tailId |-> item.parent.TAIL_ID,
     hashedUser |-> item.parent.HASHED_USER_IP,
     children |-> [j \in 1..Len(item.children) |-> childResponse(item.children[j])]]

commentsGET(T, page, limit) ==
    IF page < 1 \/ limit < 1
    THEN [status |-> 400, body |-> [error |-> "page and limit must be at least 1"]]
    ELSE LET result == getComments(T, page, limit)
         IN [status |-> 200,
             body |-> [page |-> page,
                       limit |-> limit,
                       totalCount |-> result.totalCount,
                       data |-> [i \in 1..Len(result.comments) |->
                                    commentResponse(result.comments[i])]]]

C15_Children(T) ==
    \A page \in Pages, limit \in Limits :
        LET data == commentsGET(T, page, limit).body.data IN
        \A i \in 1..Len(data) :
            LET replies == ReplyChains(T, data[i].headerId)
                children == data[i].children
            IN /\ Len(children) = Cardinality(replies)
               /\ \A j \in 1..Len(children) :
                     /\ children[j].headerId \in replies
                     /\ children[j].parentHeaderId = data[i].headerId
                     /\ RankOldest(T, replies, children[j].headerId) = j
                     /\ children[j].id = LastInserted(T, children[j].headerId).ID

\* C15: every root on the returned page carries as children exactly the
\* current tail rows of the reply chains filed under its headerId, each reply
\* chain once and in the order the reply chains were created (none gives an
\* empty list); a write to a reply chain does not change which roots are on
\* any page.
C15_RepliesOfPage ==
    /\ COMMENTS = {} => C15_Children(COMMENTS)
    /\ [][COMMENTS' # COMMENTS =>
            /\ C15_Children(COMMENTS')
            /\ RowOf(COMMENTS', call'.newId).PARENT_HEADER_ID # NULL =>
                  \A limit \in Limits :
                      RootsThrough(COMMENTS', MaxPage, limit)
                        = RootsThrough(COMMENTS, MaxPage, limit)]_vars

\* a page whose root carries two reply chains, oldest first, beside nothing
\* else: the replies did not become page items
C15_Witness ==
    LET data == commentsGET(COMMENTS, 1, 2).body.data IN
    /\ Len(data) = 1
    /\ Len(data[1].children) = 2
    /\ data[1].children[1].id < data[1].children[2].id
    /\ data[1].children[1].parentHeaderId = data[1].headerId

\* C16: the thread model is exactly two levels deep: every row with a
\* non-null parentHeaderId points to the headerId of an existing root chain;
\* POST /comments cannot create a reply to a reply chain or to a chain that
\* does not exist.
C16_TwoLevels ==
    \A r \in COMMENTS :
        r.PARENT_HEADER_ID # NULL => r.PARENT_HEADER_ID \in RootChains(COMMENTS)

\* ------------------------------------------------------------ HTTP responses
\* Error messages are sequences of words (romanised), so that
\* message.includes(needle) is the test for a run of consecutive words.
includes(message, needle) ==
    \E i \in 1..(Len(message) - Len(needle) + 1) :
        SubSeq(message, i, i + Len(needle) - 1) = needle

\* the verb the messages of updateComment / deleteComment end with
verbOf(op) == IF op = "update" THEN "sujeonghal" ELSE "sagjehal"

\* the noun of 'comment ... failed: no new id'
nounOf(op) ==
    IF op = "update" THEN "sujeong" ELSE IF op = "delete" THEN "sagje" ELSE "saengseong"

\* Error.message of what the service throws, by call and kind of error
errorMessage(op, result) ==
    CASE result = "NotFound" ->
           <<"jonjaehaji", "anhneun", "daetgeul", "ibnida">>
      [] result = "NoHashedPassword" ->
           <<"haesidoen", "bimilbeonho", "ga", "jonjaehaji", "anhseubnida">>
      [] result = "AlreadyDeleted" ->
           <<"imi", "sagjedoen", "daetgeul", "eun", verbOf(op), "su", "eobsseubnida">>
      [] result = "AlreadyEdited" ->
           IF op = "update"
           THEN <<"imi", "sujeongdoen", "daetgeul", "eun", "dasi", verbOf(op), "su",
                  "eobsseubnida">>
           ELSE <<"imi", "sujeongdoen", "daetgeul", "eun", verbOf(op), "su", "eobsseubnida">>
      [] result = "PasswordMismatch" ->
           <<"bimilbeonho", "ga", "ilchihaji", "anha", verbOf(op), "su", "eobsseubnida">>
      [] result = NoNewId ->
           <<"daetgeul", nounOf(op), "silpae", "newId", "ga", "eobsseubnida">>
      [] result = ConfigError ->
           <<"DB", "hwangyeong", "byeonsu", "ga", "seoljeongdoeji", "anhassseubnida",
             "DB_USER", "DB_PASSWORD", "DB_CONNECTION_STRING", "eul", "hwaginhaseyo">>
      [] result = StoreError ->
           <<"ORA-", "driver", "message">>
      [] result = "HistoryNotFound" ->
           <<"haedang", "daetgeul", "eul", "chajeul", "su", "eobsseubnida">>
      [] OTHER -> <<>>

\* the needles the routes look for
NeedleNotFound == <<"jonjaehaji", "anhneun">>

NeedlePassword == <<"bimilbeonho">>

NeedleDeleted == <<"sagjedoen">>

NeedleEdited == <<"sujeongdoen">>

NeedleConfig == <<"hwangyeong", "byeonsu", "ga", "seoljeongdoeji", "anhassseubnida">>

NeedleHistoryNotFound == <<"chajeul", "su", "eobsseubnida">>

isDriverError(message) == includes(message, <<"ORA-">>) \/ includes(message, <<"Oracle">>)

configDetails == <<"DB", "hwangyeong", "byeonsu", "ga", "seoljeongdoeji", "anhassseubnida">>

\* the 500 answers every comment route ends its catch block with
serverError(message, failedText) ==
    IF includes(message, NeedleConfig)
    THEN [status |-> 500,
          body |-> [error |-> <<"Database", "configuration", "error">>,
                    details |-> configDetails]]
    ELSE IF isDriverError(message)
    THEN [status |-> 500,
          body |-> [error |-> <<"Database", "connection", "error">>,
                    details |-> message]]
    ELSE [status |-> 500, body |-> [error |-> failedText, details |-> message]]

\* variant: a secret mismatch is answered 403
clientErrorStatus_Forbidden(message) ==
    IF includes(message, NeedlePassword) THEN 403 ELSE 400

\* the status of the second test of the PUT / DELETE catch block
clientErrorStatus(message) == 400

\* the catch block of PUT and DELETE /comments/:id
idRouteError(message, failedText) ==
    IF includes(message, NeedleNotFound)
    THEN [status |-> 404, body |-> [error |-> message]]
    ELSE IF \/ includes(message, NeedlePassword)
            \/ includes(message, NeedleDeleted)
            \/ includes(message, NeedleEdited)
    THEN [status |-> clientErrorStatus(message), body |-> [error |-> message]]
    ELSE serverError(message, failedText)

\* PUT /comments/:id for a request that passed validation, by what
\* updateComment did
commentPUT(outcome) ==
    IF outcome.result = "ok"
    THEN [status |-> 200, body |-> [id |-> outcome.newId]]
    ELSE idRouteError(errorMessage("update", outcome.result),
                      <<"Failed", "to", "update", "comment">>)

\* DELETE /comments/:id for a request that passed validation, by what
\* deleteComment did
commentDELETE(outcome) ==
    IF outcome.result = "ok"
    THEN [status |-> 200, body |-> [id |-> outcome.newId]]
    ELSE idRouteError(errorMessage("delete", outcome.result),
                      <<"Failed", "to", "delete", "comment">>)

\* POST /comments, by what the validation or createComment did
commentsPOST(outcome) ==
    IF outcome.result = "ok"
    THEN [status |-> 201, body |-> [id |-> outcome.newId]]
    ELSE IF outcome.result = "BadRequest"
    THEN [status |-> 400,
          body |-> [error |-> <<"parentHeaderId", "neun", "yangsu", "yeoya", "habnida">>]]
    ELSE serverError(errorMessage("create", outcome.result),
                     <<"Failed", "to", "create", "comment">>)

\* GET /comments when getComments throws
commentsGETFails(error) ==
    serverError(errorMessage("list", error), <<"Failed", "to", "fetch", "comments">>)

\* variant: the history mapping passes the stored hash on
historyResponse_WithHash(item) ==
    [id |-> item.id,
     parentHeaderId |-> item.parentHeaderId,
     content |-> item.content,
     createdAt |-> toISOString(item.createdAt),
     updatedAt |-> toISOString(item.updatedAt),
     isEdited |-> item.isEdited,
     isDeleted |-> item.isDeleted,
     version |-> item.version,
     editedCommentId |-> item.editedCommentId,
     headerId |-> item.headerId,
     tailId |-> item.tailId,
     hashedUser |-> item.hashedUserIP,
     hashedPassword |-> item.hashedPassword]

\* the fields of a history entry the route hands to the client
historyResponse(item) ==
    [id |-> item.id,
     parentHeaderId |-> item.parentHeaderId,
     content |-> item.content,
     createdAt |-> toISOString(item.createdAt),
     updatedAt |-> toISOString(item.updatedAt),
     isEdited |-> item.isEdited,
     isDeleted |-> item.isDeleted,
     version |-> item.version,
     editedCommentId |-> item.editedCommentId,
     headerId |-> item.headerId,
     tailId |-> item.tailId,
     hashedUser |-> item.hashedUserIP]

\* GET /comments/:id/history
historyGET(T, commentId) ==
    IF commentId < 1
    THEN [status |-> 400, body |-> [error |-> <<"yuhyohaji", "anheun", "daetgeul", "ID">>]]
    ELSE LET got == getCommentHistory(T, commentId) IN
         IF got.result = "ok"
         THEN [status |-> 200,
               body |-> [history |-> [i \in 1..Len(got.history) |->
                                         historyResponse(got.history[i])]]]
         ELSE LET message == errorMessage("history", got.result) IN
              IF includes(message, NeedleHistoryNotFound)
              THEN [status |-> 404, body |-> [error |-> message]]
              ELSE serverError(message, <<"Failed", "to", "get", "comment", "history">>)

\* GET /comments/:id/history when getCommentHistory throws a store error
historyGETFails(error) ==
    serverError(errorMessage("history", error),
                <<"Failed", "to", "get", "comment", "history">>)

\* the response to the last mutating call
responseOf(outcome) ==
    CASE outcome.op = "create" -> commentsPOST(outcome)
      [] outcome.op = "update" -> commentPUT(outcome)
      [] outcome.op = "delete" -> commentDELETE(outcome)

\* the words of an error body
BodyWords(body) ==
    {body.error[i] : i \in 1..Len(body.error)}
      \cup (IF "details" \in DOMAIN body
            THEN {body.details[i] : i \in 1..Len(body.details)} ELSE {})

\* a table that differs from T in its HASHED_PASSWORD values only
Rehashed(T) == {[r EXCEPT !.HASHED_PASSWORD = hashPassword("other")] : r \in T}

\* no body of a mutating call or of a failed read carries a submitted
\* password; a success body is the id alone
C17_NoSecretInAnswer(outcome) ==
    /\ outcome.op \in {"create", "update", "delete"} =>
          LET response == responseOf(outcome) IN
          IF outcome.result = "ok"
          THEN response.body = [id |-> outcome.newId]
          ELSE BodyWords(response.body) \cap Secrets = {}
    /\ \A error \in {ConfigError, StoreError} :
          /\ BodyWords(commentsGETFails(error).body) \cap Secrets = {}
          /\ BodyWords(historyGETFails(error).body) \cap Secrets = {}

\* the reads answer the same whatever the stored hashes are, and no entry
\* has a field for the hash
C17_ReadsIgnoreHash(T) ==
    /\ \A page \in 0..MaxPage, limit \in Limits :
          commentsGET(T, page, limit) = commentsGET(Rehashed(T), page, limit)
    /\ \A commentId \in 0..(Cardinality(T) + 1) :
          LET response == historyGET(T, commentId) IN
          /\ response = historyGET(Rehashed(T), commentId)
          /\ response.status = 200 =>
                \A i \in 1..Len(response.body.history) :
                    "hashedPassword" \notin DOMAIN response.body.history[i]

\* C17: no response of the comment endpoints, success or error, carries the
\* stored secretHash or the submitted password, and two tables that differ in
\* their secretHash values only get identical responses to GET /comments and
\* GET /comments/:id/history.
C17_SecretNeverExposed ==
    /\ C17_NoSecretInAnswer(call)
    /\ C17_ReadsIgnoreHash(COMMENTS)

\* a wrong password was refused and the history of the two-version chain it
\* targeted is served without the hash
C17_Witness ==
    /\ call.op \in {"update", "delete"}
    /\ call.result = Unauthorized
    /\ call.secret \in Secrets
    /\ responseOf(call).status = 400
    /\ Len(historyGET(COMMENTS, call.id).body.history) = 2

\* C18: PUT and DELETE /comments/:id answer 404 when the target row is
\* absent, 400 (never 403) when it is tombstoned or superseded or the secret
\* does not match, 500 on store configuration and driver errors, and 200 with
\* the new row id on success.
C18_StatusOfFailure ==
    call.op \in {"update", "delete"} =>
        LET response == responseOf(call) IN
        /\ response.status # 403
        /\ call.result = "NotFound" => response.status = 404
        /\ call.result \in InvalidState \cup {Unauthorized} => response.status = 400
        /\ call.result \in {ConfigError, StoreError, NoNewId} => response.status = 500
        /\ call.result = "ok" =>
              response.status = 200 /\ response.body = [id |-> call.newId]
        /\ call.result \in {"ok", "NotFound", Unauthorized, ConfigError, StoreError, NoNewId}
                              \cup InvalidState

\* a delete was refused for a wrong secret and answered 400
C18_Witness ==
    /\ call.op = "delete"
    /\ call.result = Unauthorized
    /\ commentDELETE(call).status = 400


\* ==================================================================
\* Collaboration rooms: roomService over the room store, the signaling
\* service over the signaling store, and the room routes.
\* ==================================================================

\* ---------------------------------------------------------------- bounds
\* rooms createRoom may stamp
MaxRoomClock == 2

\* ------------------------------------------------------------ input sets
\* client UUIDs; NoClient is a request without an x-client-id header (or a
\* body without hostId), NoRoomCode a message without roomCode
Clients == {"h", "p"}
NoClient == ""
RoomCodes == {"0001"}
NoRoomCode == ""
Roles == {"host", "participant"}
\* the WebSockets that may be open at once, numbered
Sockets == 1..2
\* seconds of an allow-join request: absent (0), in range, out of range
Durations == {0, 60, 3601}

DefaultMaxParticipants == 4

\* ----------------------------------------------------------- roomService
\* A room is [roomCode, hostId, createdAt, expired, allowJoin, participants,
\* kickedParticipants, maxParticipants].  expiresAt is createdAt + 6 hours:
\* the room keeps, as expired, whether Date.now() has passed it.
\* kickedParticipants is the map participantId -> kickedAt, as pairs.
getActiveRoomsByHostId(S, hostId) ==
    {room \in S : room.hostId = hostId /\ ~ room.expired}

\* variant: no room of the host is found, so none is kept
pruneRoomsByHostId_FindsNone(S, hostId) == [store |-> S, keep |-> {}]

\* keeps the oldest active room of the host: [store, keep]
pruneRoomsByHostId(S, hostId) ==
    LET rooms == getActiveRoomsByHostId(S, hostId)
        keep == {room \in rooms : \A other \in rooms : room.createdAt <= other.createdAt}
    IN [store |-> S \ (rooms \ keep), keep |-> keep]

\* the newest active room of the host, or none
getRoomByHostId(S, hostId) ==
    LET rooms == getActiveRoomsByHostId(S, hostId)
    IN {room \in rooms : \A other \in rooms : room.createdAt >= other.createdAt}

\* the room of that code unless it is absent or expired
getRoom(S, roomCode) == {room \in S : room.roomCode = roomCode /\ ~ room.expired}

allowJoin(S, roomCode) ==
    {IF room.roomCode = roomCode THEN [room EXCEPT !.allowJoin = TRUE] ELSE room : room \in S}

\* 'Room is full' is thrown for a newcomer when the room is at its maximum
addParticipantThrows(S, roomCode, participantId) ==
    \E room \in S :
        /\ room.roomCode = roomCode
        /\ ~ includes(room.participants, <<participantId>>)
        /\ Len(room.participants) >= room.maxParticipants

addParticipant(S, roomCode, participantId) ==
    {IF /\ room.roomCode = roomCode
        /\ ~ includes(room.participants, <<participantId>>)
        /\ Len(room.participants) < room.maxParticipants
     THEN [room EXCEPT !.participants = Append(@, participantId)]
     ELSE room : room \in S}

removeParticipant(S, roomCode, participantId) ==
    {IF room.roomCode = roomCode
     THEN [room EXCEPT !.participants = SelectSeq(@, LAMBDA p : p # participantId)]
     ELSE room : room \in S}

kickParticipant(S, roomCode, participantId) ==
    {IF room.roomCode = roomCode
     THEN [room EXCEPT !.kickedParticipants = @ \cup {<<participantId, room.createdAt>>}]
     ELSE room : room \in removeParticipant(S, roomCode, participantId)}

isKickedParticipant(S, roomCode, participantId) ==
    \E room \in S :
        /\ room.roomCode = roomCode
        /\ <<participantId, room.createdAt>> \in room.kickedParticipants

deleteRoom(S, roomCode) == {room \in S : room.roomCode # roomCode}

cleanupExpiredRooms(S) == {room \in S : ~ room.expired}

\* lapsed: Date.now() has passed allowJoinExpiresAt
checkAndUpdateAllowJoin(S, roomCode, lapsed) ==
    {IF room.roomCode = roomCode /\ room.allowJoin /\ lapsed
     THEN [room EXCEPT !.allowJoin = FALSE]
     ELSE room : room \in S}

\* -------------------------------------------------------- signalingStore
\* G is [connections, roomClients]: connections holds one
\* [clientId, ws, roomCode, role] per clientId, roomClients the pairs
\* <<roomCode, clientId>> of the per-room client sets.
connectionOf(G, clientId) == {c \in G.connections : c.clientId = clientId}

addConnection(G, clientId, ws) ==
    [G EXCEPT !.connections =
        (@ \ connectionOf(G, clientId))
        \cup {[clientId |-> clientId, ws |-> ws, roomCode |-> NoRoomCode, role |-> "none"]}]

removeConnection(G, clientId) ==
    [connections |-> G.connections \ connectionOf(G, clientId),
     roomClients |-> G.roomClients \ {<<c.roomCode, clientId>> : c \in connectionOf(G, clientId)}]

RECURSIVE removeConnections(_, _)
removeConnections(G, clientIds) ==
    IF clientIds = {} THEN G
    ELSE LET clientId == CHOOSE c \in clientIds : TRUE
         IN removeConnections(removeConnection(G, clientId), clientIds \ {clientId})

setRoom(G, clientId, roomCode, role) ==
    IF connectionOf(G, clientId) = {} THEN G
    ELSE [connections |->
            {IF c.clientId = clientId THEN [c EXCEPT !.roomCode = roomCode, !.role = role]
             ELSE c : c \in G.connections},
          roomClients |->
            (G.roomClients \ {<<c.roomCode, clientId>> : c \in connectionOf(G, clientId)})
            \cup {<<roomCode, clientId>>}]

getRoomClients(G, roomCode) == {clientId \in Clients : <<roomCode, clientId>> \in G.roomClients}

\* ------------------------------------------------------ signalingService
\* the connections whose socket is no longer OPEN
notOpen(G, K) ==
    {c.clientId : c \in {c \in G.connections :
        \A s \in K : s.ws = c.ws => s.readyState # "OPEN"}}

\* a send to a connection whose socket is not OPEN removes the connection
sendToClient(G, K, clientId) ==
    removeConnections(G, {clientId} \cap notOpen(G, K))

broadcastToRoom(G, K, roomCode, excludeClientId) ==
    removeConnections(G, (getRoomClients(G, roomCode) \ {excludeClientId}) \cap notOpen(G, K))

notifyRoomClosed(G, K, S, roomCode) ==
    LET participants == {p \in Clients : \E room \in getRoom(S, roomCode) :
                                            includes(room.participants, <<p>>)}
        sent == removeConnections(G, participants \cap notOpen(G, K))
    IN removeConnections(sent, getRoomClients(sent, roomCode))

\* POST /rooms; roomCode is the code generateRoomCode draws, and a drawn
\* code that is in use stands for 'No available room codes'.  400 without a
\* hostId, 409 without a code, else 200 with the host's room.
roomsPOST(hostId, roomCode) ==
    /\ LET pruned == pruneRoomsByHostId(roomStore, hostId) IN
       IF hostId = NoClient
       THEN UNCHANGED <<roomStore, roomClock>>
       ELSE IF pruned.keep # {}
       THEN roomStore' = pruned.store /\ UNCHANGED roomClock
       ELSE IF \E room \in roomStore : room.roomCode = roomCode
       THEN UNCHANGED <<roomStore, roomClock>>
       ELSE /\ roomClock < MaxRoomClock
            /\ roomClock' = roomClock + 1
            /\ roomStore' = roomStore \cup
                 {[roomCode |-> roomCode, hostId |-> hostId, createdAt |-> roomClock + 1,
                   expired |-> FALSE, allowJoin |-> FALSE, participants |-> <<>>,
                   kickedParticipants |-> {}, maxParticipants |-> DefaultMaxParticipants]}
    /\ UNCHANGED <<signalingStore, sockets>>
    /\ UNCHANGED <<COMMENTS, identity, clock, call, createdSecret, sessions, roomsFile, delivered>>

\* GET /rooms/:roomCode: 404 without the room; else the allow-join window is
\* brought up to date, and the answer is 403 for a kicked client, else 200
roomGET(roomCode, clientId, lapsed) ==
    /\ roomStore' = IF getRoom(roomStore, roomCode) = {} THEN roomStore
                    ELSE checkAndUpdateAllowJoin(roomStore, roomCode, lapsed)
    /\ UNCHANGED <<roomClock, signalingStore, sockets>>
    /\ UNCHANGED <<COMMENTS, identity, clock, call, createdSecret, sessions, roomsFile, delivered>>

\* the routes' host check, which answers 403
notHost(room, clientId) == clientId # NoClient /\ room.hostId # clientId

\* DELETE /rooms/:roomCode: 404, 403, else the room is deleted
roomDELETE(roomCode, clientId) ==
    /\ roomStore' =
         IF getRoom(roomStore, roomCode) = {} THEN roomStore
         ELSE IF \E room \in getRoom(roomStore, roomCode) : notHost(room, clientId)
         THEN roomStore
         ELSE deleteRoom(roomStore, roomCode)
    /\ UNCHANGED <<roomClock, signalingStore, sockets>>
    /\ UNCHANGED <<COMMENTS, identity, clock, call, createdSecret, sessions, roomsFile, delivered>>

\* POST /rooms/:roomCode/kick: 404, 403, 404 for a participant who is not in
\* the room, else the participant is kicked
kickPOST(roomCode, clientId, participantId) ==
    /\ roomStore' =
         IF getRoom(roomStore, roomCode) = {} THEN roomStore
         ELSE IF \E room \in getRoom(roomStore, roomCode) : notHost(room, clientId)
         THEN roomStore
         ELSE IF \E room \in getRoom(roomStore, roomCode) :
                    ~ includes(room.participants, <<participantId>>)
         THEN roomStore
         ELSE kickParticipant(roomStore, roomCode, participantId)
    /\ UNCHANGED <<roomClock, signalingStore, sockets>>
    /\ UNCHANGED <<COMMENTS, identity, clock, call, createdSecret, sessions, roomsFile, delivered>>

\* POST /rooms/:roomCode/allow-join: 400 for a duration out of range, 404,
\* 403, else joining is allowed
allowJoinPOST(roomCode, clientId, duration) ==
    /\ roomStore' =
         LET seconds == IF duration = 0 THEN 60 ELSE duration IN
         IF seconds <= 0 \/ seconds > 3600 THEN roomStore
         ELSE IF getRoom(roomStore, roomCode) = {} THEN roomStore
         ELSE IF \E room \in getRoom(roomStore, roomCode) : notHost(room, clientId)
         THEN roomStore
         ELSE allowJoin(roomStore, roomCode)
    /\ UNCHANGED <<roomClock, signalingStore, sockets>>
    /\ UNCHANGED <<COMMENTS, identity, clock, call, createdSecret, sessions, roomsFile, delivered>>

\* wss.on('connection'): a new socket of the client, which takes the lowest
\* free number; a socket without a clientId is closed at once
handleConnection(ws, clientId) ==
    /\ \A w \in Sockets : w < ws <=> \E s \in sockets : s.ws = w
    /\ IF clientId = NoClient
       THEN UNCHANGED <<signalingStore, sockets>>
       ELSE /\ sockets' = sockets \cup {[ws |-> ws, clientId |-> clientId, readyState |-> "OPEN"]}
            /\ signalingStore' = addConnection(signalingStore, clientId, ws)
    /\ UNCHANGED <<roomStore, roomClock>>
    /\ UNCHANGED <<COMMENTS, identity, clock, call, createdSecret, sessions, roomsFile, delivered>>

\* the socket starts closing: its readyState leaves OPEN before its close
\* event is handled
socketCloses(s) ==
    /\ s.readyState = "OPEN"
    /\ sockets' = (sockets \ {s}) \cup {[s EXCEPT !.readyState = "CLOSING"]}
    /\ UNCHANGED <<roomStore, roomClock, signalingStore>>
    /\ UNCHANGED <<COMMENTS, identity, clock, call, createdSecret, sessions, roomsFile, delivered>>

\* ws.on('close') and ws.on('error'), for the clientId the socket came with
onClose(s) ==
    /\ s.readyState = "CLOSING"
    /\ sockets' = sockets \ {s}
    /\ roomStore' =
         IF \E c \in connectionOf(signalingStore, s.clientId) : c.roomCode # NoRoomCode
         THEN LET c == CHOOSE c \in connectionOf(signalingStore, s.clientId) : TRUE
              IN removeParticipant(roomStore, c.roomCode, s.clientId)
         ELSE roomStore
    /\ signalingStore' = removeConnection(signalingStore, s.clientId)
    /\ UNCHANGED roomClock
    /\ UNCHANGED <<COMMENTS, identity, clock, call, createdSecret, sessions, roomsFile, delivered>>

\* a message of an OPEN socket is handled when its clientId has a connection
handleMessage(s) ==
    /\ s.readyState = "OPEN"
    /\ connectionOf(signalingStore, s.clientId) # {}

handleRegister(s, roomCode, role) ==
    /\ handleMessage(s)
    /\ LET clientId == s.clientId
           found == IF roomCode = NoRoomCode
                    THEN getRoomByHostId(roomStore, clientId)
                    ELSE getRoom(roomStore, roomCode)
           registered ==
               IF role = "host" /\ \E room \in found : room.hostId = clientId
               THEN LET room == CHOOSE room \in found : TRUE
                    IN setRoom(signalingStore, clientId, room.roomCode, "host")
               ELSE signalingStore
       IN signalingStore' = sendToClient(registered, sockets, clientId)
    /\ UNCHANGED <<roomStore, roomClock, sockets>>
    /\ UNCHANGED <<COMMENTS, identity, clock, call, createdSecret, sessions, roomsFile, delivered>>

handleJoin(s, roomCode, role) ==
    /\ handleMessage(s)
    /\ LET clientId == s.clientId
           accepted ==
               /\ roomCode # NoRoomCode
               /\ role = "participant"
               /\ \E room \in getRoom(roomStore, roomCode) :
                      room.hostId # clientId /\ room.allowJoin
           registered == setRoom(signalingStore, clientId, roomCode, "participant")
       IN IF ~ accepted
          THEN /\ signalingStore' = sendToClient(signalingStore, sockets, clientId)
               /\ UNCHANGED roomStore
          ELSE IF addParticipantThrows(roomStore, roomCode, clientId)
          THEN /\ signalingStore' = sendToClient(registered, sockets, clientId)
               /\ UNCHANGED roomStore
          ELSE /\ roomStore' = addParticipant(roomStore, roomCode, clientId)
               /\ signalingStore' =
                    broadcastToRoom(sendToClient(registered, sockets, clientId),
                                    sockets, roomCode, clientId)
    /\ UNCHANGED <<roomClock, sockets>>
    /\ UNCHANGED <<COMMENTS, identity, clock, call, createdSecret, sessions, roomsFile, delivered>>

handleLeave(s) ==
    /\ handleMessage(s)
    /\ LET clientId == s.clientId
           connection == CHOOSE c \in connectionOf(signalingStore, clientId) : TRUE
           roomCode == connection.roomCode
       IN IF roomCode = NoRoomCode
          THEN UNCHANGED <<roomStore, signalingStore>>
          ELSE IF connection.role = "host"
          THEN IF getRoom(roomStore, roomCode) = {}
               THEN /\ signalingStore' = removeConnection(signalingStore, clientId)
                    /\ UNCHANGED roomStore
               ELSE /\ signalingStore' =
                         removeConnection(
                             notifyRoomClosed(signalingStore, sockets, roomStore, roomCode),
                             clientId)
                    /\ roomStore' = deleteRoom(roomStore, roomCode)
          ELSE /\ roomStore' = removeParticipant(roomStore, roomCode, clientId)
               /\ signalingStore' =
                    removeConnection(
                        IF getRoom(roomStore, roomCode) = {} THEN signalingStore
                        ELSE broadcastToRoom(signalingStore, sockets, roomCode, clientId),
                        clientId)
    /\ UNCHANGED <<roomClock, sockets>>
    /\ UNCHANGED <<COMMENTS, identity, clock, call, createdSecret, sessions, roomsFile, delivered>>

\* the rooms whose host's connection the cleanup found dead, closed in turn
RECURSIVE closeRooms(_, _, _, _)
closeRooms(G, K, S, roomCodes) ==
    IF roomCodes = {} THEN [signalingStore |-> G, roomStore |-> S]
    ELSE LET roomCode == CHOOSE r \in roomCodes : TRUE
         IN IF getRoom(S, roomCode) = {}
            THEN closeRooms(G, K, S, roomCodes \ {roomCode})
            ELSE closeRooms(notifyRoomClosed(G, K, S, roomCode), K,
                            deleteRoom(S, roomCode), roomCodes \ {roomCode})

\* the minute timer of dead connections
cleanupDeadConnections ==
    /\ LET dead == notOpen(signalingStore, sockets)
           roomsDeleted == {c.roomCode : c \in {c \in signalingStore.connections :
                               /\ c.clientId \in dead
                               /\ c.roomCode # NoRoomCode
                               /\ c.role = "host"}}
           closed == closeRooms(removeConnections(signalingStore, dead), sockets,
                                roomStore, roomsDeleted)
       IN /\ signalingStore' = closed.signalingStore
          /\ roomStore' = closed.roomStore
    /\ UNCHANGED <<roomClock, sockets>>
    /\ UNCHANGED <<COMMENTS, identity, clock, call, createdSecret, sessions, roomsFile, delivered>>

\* the minute timer of expired rooms
cleanupExpiredRoomsTimer ==
    /\ roomStore' = cleanupExpiredRooms(roomStore)
    /\ UNCHANGED <<roomClock, signalingStore, sockets>>
    /\ UNCHANGED <<COMMENTS, identity, clock, call, createdSecret, sessions, roomsFile, delivered>>

\* the minute timer of expiry warnings, broadcasting to a room
expiryWarningTimer(roomCode) ==
    /\ \E room \in roomStore : room.roomCode = roomCode
    /\ signalingStore' = broadcastToRoom(signalingStore, sockets, roomCode, NoClient)
    /\ UNCHANGED <<roomStore, roomClock, sockets>>
    /\ UNCHANGED <<COMMENTS, identity, clock, call, createdSecret, sessions, roomsFile, delivered>>

\* Date.now() passes the room's expiresAt
roomExpires(room) ==
    /\ ~ room.expired
    /\ roomStore' = (roomStore \ {room}) \cup {[room EXCEPT !.expired = TRUE]}
    /\ UNCHANGED <<roomClock, signalingStore, sockets>>
    /\ UNCHANGED <<COMMENTS, identity, clock, call, createdSecret, sessions, roomsFile, delivered>>

NextRoom ==
    \/ \E hostId \in Clients \cup {NoClient}, roomCode \in RoomCodes : roomsPOST(hostId, roomCode)
    \/ \E roomCode \in RoomCodes, clientId \in Clients \cup {NoClient}, lapsed \in BOOLEAN :
           roomGET(roomCode, clientId, lapsed)
    \/ \E roomCode \in RoomCodes, clientId \in Clients \cup {NoClient} :
           roomDELETE(roomCode, clientId)
    \/ \E roomCode \in RoomCodes, clientId \in Clients \cup {NoClient}, participantId \in Clients :
           kickPOST(roomCode, clientId, participantId)
    \/ \E roomCode \in RoomCodes, clientId \in Clients \cup {NoClient}, duration \in Durations :
           allowJoinPOST(roomCode, clientId, duration)
    \/ \E ws \in Sockets, clientId \in Clients \cup {NoClient} : handleConnection(ws, clientId)
    \/ \E s \in sockets : socketCloses(s)
    \/ \E s \in sockets : onClose(s)
    \/ \E s \in sockets, roomCode \in RoomCodes \cup {NoRoomCode}, role \in Roles :
           handleRegister(s, roomCode, role)
    \/ \E s \in sockets, roomCode \in RoomCodes \cup {NoRoomCode}, role \in Roles :
           handleJoin(s, roomCode, role)
    \/ \E s \in sockets : handleLeave(s)
    \/ cleanupDeadConnections
    \/ cleanupExpiredRoomsTimer
    \/ \E roomCode \in RoomCodes : expiryWarningTimer(roomCode)
    \/ \E room \in roomStore : roomExpires(room)

SpecRoom == Init /\ [][NextRoom]_vars

\* C19: a participant kicked from a room never gets back into that room
\* instance: while the room keeps its createdAt, a step puts a kicked
\* client neither back into the room's participants nor back into the
\* room's signaling client set.
C19_KickedStaysOut ==
    [][\A room \in roomStore, p \in Clients :
          <<p, room.createdAt>> \in room.kickedParticipants =>
            \A later \in roomStore' :
              (later.roomCode = room.roomCode /\ later.createdAt = room.createdAt) =>
                /\ ~ includes(room.participants, <<p>>)
                       => ~ includes(later.participants, <<p>>)
                /\ <<room.roomCode, p>> \notin signalingStore.roomClients
                       => <<room.roomCode, p>> \notin signalingStore'.roomClients]_vars

\* C20: only the host of a room deletes it, kicks from it or enables
\* allow-join on it: a step that handles a DELETE, kick or allow-join request
\* whose x-client-id is not the room's hostId, or is absent, leaves the room
\* store as it was.
C20_OnlyHostChanges ==
    [][\A roomCode \in RoomCodes, clientId \in Clients \cup {NoClient} :
          (\A room \in roomStore : room.roomCode = roomCode => room.hostId # clientId) =>
            (( \/ roomDELETE(roomCode, clientId)
               \/ \E participantId \in Clients : kickPOST(roomCode, clientId, participantId)
               \/ \E duration \in Durations : allowJoinPOST(roomCode, clientId, duration))
             => roomStore' = roomStore)]_vars

\* ---------------------------------------------------------- calls in progress
\* Each service call opens a connection of its own (oracledb.getConnection,
\* no pool) and runs its statements one at a time, so two calls interleave
\* statement by statement.  A session reads the committed rows and its own
\* uncommitted rows; an UPDATE of a row another session has written and not
\* committed waits for that session to end.

\* ids the table may draw in the runs that interleave calls
MaxCallRows == 3

\* what the interleaved calls are given
CallSecrets == {"pw1"}

CallContents == {"c2"}

CallPages == {1}

Mutating == {"create", "update", "delete"}

Reading == {"getComments", "getCommentHistory"}

\* the statements of each call, in the order the call executes them
Statements(op) ==
    CASE op = "create" -> <<"createInsert", "createUpdate">>
      [] op = "update" -> <<"select", "markEdited", "updateInsert", "updateNewTail",
                            "updateOldComment", "updateAllTail">>
      [] op = "delete" -> <<"select", "markEdited", "deleteInsert", "updateNewTail",
                            "updateOldTail">>
      [] op = "getComments" -> <<"countSql", "parentSql", "childrenSql">>
      [] op = "getCommentHistory" -> <<"headerSql", "historySql">>
      [] OTHER -> <<>>

\* the statement a call in its try block executes next ("commit" after the last)
Statement(c) ==
    IF c.pc = "try" /\ c.at < Len(Statements(c.op))
    THEN Statements(c.op)[c.at + 1]
    ELSE IF c.pc = "try" THEN "commit" ELSE "none"

\* the rows a session sees: committed rows, overlaid with its own writes
View(s) ==
    LET written == sessions[s].written
    IN {r \in COMMENTS : r.ID \notin Ids(written)} \cup written

\* the ids of the rows an UPDATE's WHERE clause selects
Matched(T, c, stmt) ==
    CASE stmt \in {"markEdited", "updateOldComment"} -> Ids({r \in T : r.ID = c.id})
      [] stmt \in {"createUpdate", "updateNewTail"} -> Ids({r \in T : r.ID = c.newId})
      [] stmt \in {"updateAllTail", "updateOldTail"} ->
           Ids({r \in T : r.HEADER_ID # NULL /\ r.HEADER_ID = c.headerId})
      [] OTHER -> {}

\* the table an UPDATE statement of call c produces from T
Updated(T, c, stmt, now) ==
    CASE stmt = "createUpdate" -> createUpdate(T, c.newId)
      [] stmt = "markEdited" -> markEdited(T, c.id)
      [] stmt = "updateNewTail" -> updateNewTail(T, c.newId)
      [] stmt = "updateOldComment" -> updateOldComment(T, c.newId, c.id, now)
      [] stmt = "updateAllTail" -> updateAllTail(T, c.newId, c.headerId, now)
      [] stmt = "updateOldTail" -> updateOldTail(T, c.newId, c.headerId)
      [] OTHER -> T

\* the table an INSERT statement of call c produces from T
Inserted(T, c, stmt, newId, now) ==
    LET oldComment == CHOOSE r \in c.oldComment : TRUE IN
    CASE stmt = "createInsert" ->
           createInsert(T, newId, now, c.hashedUserIP, hashPassword(c.secret), c.id,
                        c.content)
      [] stmt = "updateInsert" ->
           updateInsert(T, newId, now, oldComment, c.content, c.hashedUserIP)
      [] stmt = "deleteInsert" -> deleteInsert(T, newId, now, oldComment, c.hashedUserIP)
      [] OTHER -> T

\* a row lock: another session has written one of the rows and not committed
Waits(s, ids) == \E o \in Slots \ {s} : ids \cap Ids(sessions[o].written) # {}

\* connection.execute of a writing statement by session s: T1 is the table
\* the statement produces from the session's view, ids the rows it touched
Executes(s, c, T1, ids, options) ==
    LET tx == execute([committed |-> COMMENTS, working |-> View(s)], T1, options)
    IN /\ COMMENTS' = tx.committed
       /\ sessions' = [sessions EXCEPT ![s] =
              [c EXCEPT !.at = @ + 1,
                        !.written = IF options.autoCommit
                                    THEN {}
                                    ELSE {r \in tx.working
                                            : r.ID \in Ids(sessions[s].written) \cup ids}]]

\* A step that touches nothing another session can see (a statement on rows
\* the session has locked or inserted itself, a rollback or close with no
\* uncommitted rows, the return) commutes with every step of the other
\* session, so it is taken before the other session moves.
Private(c) ==
    \/ c.pc = "return"
    \/ c.pc \in {"catch", "finally"} /\ c.written = {}
    \/ Statement(c) \in {"createUpdate", "updateNewTail", "updateOldComment"}

Turn(s) ==
    \A o \in Slots \ {s} : Private(sessions[o]) => Private(sessions[s]) /\ s < o

\* what the precondition checks of updateComment / deleteComment throw for
\* the selected rows ("none" when the call goes on)
Precondition(op, oldComments, userPassword) ==
    IF oldComments = {} THEN "NotFound"
    ELSE LET oldComment == CHOOSE r \in oldComments : TRUE
             isDeleted == IF op = "update" THEN updateIsDeleted(oldComment)
                                           ELSE deleteIsDeleted(oldComment)
             isEdited == IF op = "update" THEN updateIsEdited(oldComment)
                                          ELSE deleteIsEdited(oldComment)
             isPasswordMatch == IF op = "update"
                                THEN updateIsPasswordMatch(userPassword, oldComment)
                                ELSE deleteIsPasswordMatch(userPassword, oldComment)
         IN IF oldComment.HASHED_PASSWORD = <<>> THEN "NoHashedPassword"
            ELSE IF isDeleted THEN "AlreadyDeleted"
            ELSE IF isEdited THEN "AlreadyEdited"
            ELSE IF ~ isPasswordMatch THEN "PasswordMismatch"
            ELSE "none"

\* a call starts: let connection; try { connection = await getConnection()
begins(s, op, id, content, secret, hashedUserIP, error) ==
    /\ sessions[s].pc = "idle"
    /\ s > 1 => sessions[s - 1].pc # "idle"
    /\ Turn(s)
    /\ sessions' = [sessions EXCEPT ![s] =
           [Idle EXCEPT !.op = op, !.id = id, !.content = content, !.secret = secret,
                        !.hashedUserIP = hashedUserIP, !.error = error,
                        !.pc = IF error = "none" THEN "try" ELSE "catch",
                        !.connection = IF error = "none" THEN "open" ELSE "none"]]
    /\ UNCHANGED <<COMMENTS, identity, clock, call, createdSecret, roomVars>>

\* updateComment / deleteComment: SELECT ... WHERE ID = :id, then the checks
selects(s) ==
    LET c == sessions[s]
        oldComments == {r \in View(s) : r.ID = c.id}
        error == Precondition(c.op, oldComments, c.secret)
    IN /\ Statement(c) = "select"
       /\ Turn(s)
       /\ sessions' = [sessions EXCEPT ![s] =
              IF error = "none"
              THEN [c EXCEPT !.at = @ + 1, !.oldComment = oldComments,
                             !.headerId = (CHOOSE r \in oldComments : TRUE).HEADER_ID]
              ELSE [c EXCEPT !.pc = "catch", !.error = error,
                             !.verified = (error = "PasswordMismatch")]]
       /\ UNCHANGED <<COMMENTS, identity, clock, call, createdSecret, roomVars>>

\* INSERT INTO COMMENTS ... RETURNING ID INTO :newId
inserts(s) ==
    LET c == sessions[s]
        newId == identity
    IN /\ Statement(c) \in {"createInsert", "updateInsert", "deleteInsert"}
       /\ identity <= MaxCallRows
       /\ Turn(s)
       /\ Executes(s, [c EXCEPT !.newId = newId],
                   Inserted(View(s), c, Statement(c), newId, clock), {newId},
                   ExecuteOptions)
       /\ identity' = identity + 1
       /\ UNCHANGED <<clock, call, createdSecret, roomVars>>

\* UPDATE COMMENTS SET ... WHERE ...
updates(s) ==
    LET c == sessions[s]
        stmt == Statement(c)
        ids == Matched(View(s), c, stmt)
    IN /\ stmt \in {"createUpdate", "markEdited", "updateNewTail", "updateOldComment",
                    "updateAllTail", "updateOldTail"}
       /\ ~ Waits(s, ids)
       /\ Turn(s)
       /\ Executes(s, c, Updated(View(s), c, stmt, clock), ids, ExecuteOptions)
       /\ UNCHANGED <<identity, clock, call, createdSecret, roomVars>>

\* what a SELECT shows of the chains: the (HEADER_ID, TAIL_ID,
\* EDITED_COMMENT_ID) of the rows of the table it ran on
Shown(T) == {<<r.HEADER_ID, r.TAIL_ID, r.EDITED_COMMENT_ID>> : r \in T}

\* a SELECT of getComments / getCommentHistory; the call returns after its last
reads(s) ==
    LET c == sessions[s]
        stmt == Statement(c)
        headerRows == headerSql(View(s), c.id)
        last == c.at + 1 = Len(Statements(c.op))
    IN /\ stmt \in {"countSql", "parentSql", "childrenSql", "headerSql", "historySql"}
       /\ Turn(s)
       /\ sessions' = [sessions EXCEPT ![s] =
              IF stmt = "headerSql" /\ headerRows = {}
              THEN [c EXCEPT !.pc = "catch", !.error = "HistoryNotFound",
                             !.seen = Shown(View(s))]
              ELSE [c EXCEPT !.at = @ + 1, !.seen = Shown(View(s)),
                             !.pc = IF last THEN "finally" ELSE "try",
                             !.headerId = IF stmt = "headerSql"
                                          THEN CHOOSE h \in headerRows : TRUE
                                          ELSE @]]
       /\ UNCHANGED <<COMMENTS, identity, clock, call, createdSecret, roomVars>>

\* a statement, or the commit, throws a driver error
throws(s) ==
    LET c == sessions[s]
    IN /\ c.pc = "try"
       /\ Turn(s)
       /\ sessions' = [sessions EXCEPT ![s] = [c EXCEPT !.pc = "catch",
                                                        !.error = StoreError]]
       /\ UNCHANGED <<COMMENTS, identity, clock, call, createdSecret, roomVars>>

\* await connection.commit()
commits(s) ==
    LET c == sessions[s]
    IN /\ c.op \in Mutating
       /\ Statement(c) = "commit"
       /\ Turn(s)
       /\ COMMENTS' = View(s)
       /\ clock' = clock + 1
       /\ sessions' = [sessions EXCEPT ![s] = [c EXCEPT !.pc = "finally",
                                                        !.written = {}]]
       /\ UNCHANGED <<identity, call, createdSecret, roomVars>>

\* variant: a rollback that throws leaves the catch block by its own error
catches_RollbackEscapes(s, rolledBack) ==
    LET c == sessions[s]
    IN /\ c.pc = "catch"
       /\ Turn(s)
       /\ rolledBack \/ (c.op \in Mutating /\ c.connection = "open")
       /\ sessions' = [sessions EXCEPT ![s] =
              [c EXCEPT !.pc = IF rolledBack THEN "finally" ELSE "return",
                        !.written = IF rolledBack THEN {} ELSE @]]
       /\ UNCHANGED <<COMMENTS, identity, clock, call, createdSecret, roomVars>>

\* catch (error) { if (connection) { try { await connection.rollback() }
\* catch (rollbackError) { log } } throw error }: the reads only log and
\* rethrow; rolledBack is whether the rollback went through
catches(s, rolledBack) ==
    LET c == sessions[s]
    IN /\ c.pc = "catch"
       /\ Turn(s)
       /\ rolledBack \/ (c.op \in Mutating /\ c.connection = "open")
       /\ sessions' = [sessions EXCEPT ![s] =
              [c EXCEPT !.pc = "finally",
                        !.written = IF rolledBack THEN {} ELSE @]]
       /\ UNCHANGED <<COMMENTS, identity, clock, call, createdSecret, roomVars>>

\* finally { if (connection) { try { await connection.close() } catch { log } } }
\* closing a connection discards its uncommitted work
finalizes(s) ==
    LET c == sessions[s]
    IN /\ c.pc = "finally"
       /\ Turn(s)
       /\ sessions' = [sessions EXCEPT ![s] =
              [c EXCEPT !.pc = "return", !.written = {}, !.seen = {},
                        !.connection = IF @ = "open" THEN "closed" ELSE @]]
       /\ UNCHANGED <<COMMENTS, identity, clock, call, createdSecret, roomVars>>

\* the call returns its value or rethrows its error to its caller
returns(s) ==
    /\ sessions[s].pc = "return"
    /\ Turn(s)
    /\ sessions' = [sessions EXCEPT ![s] = Idle]
    /\ UNCHANGED <<COMMENTS, identity, clock, call, createdSecret, roomVars>>

\* what a call of each kind is given: the id (a page for getComments), the
\* text and the password
IdsGiven(op) ==
    IF op = "create" THEN {NULL}
    ELSE IF op = "getComments" THEN CallPages
    ELSE Ids(COMMENTS)

ContentsGiven(op) ==
    IF op = "create" THEN NewContents
    ELSE IF op = "update" THEN CallContents
    ELSE {NULL_CONTENT}

SecretsGiven(op) == IF op \in Mutating THEN CallSecrets ELSE {""}

\* the calls of the kinds ops a client may start in slot s; error is what
\* getConnection throws
Begins(s, ops, error) ==
    \E op \in ops, hashedUserIP \in Handles :
        \E id \in IdsGiven(op), content \in ContentsGiven(op), secret \in SecretsGiven(op) :
            begins(s, op, id, content, secret, hashedUserIP, error)

\* two calls at a time, interleaved statement by statement, with a store
\* that executes every statement it is given: a writer in the first slot,
\* a second writer of existing comments or a reader in the second
NextCalls ==
    \/ Begins(1, Mutating, "none")
    \/ Begins(2, {"update", "delete"} \cup Reading, "none")
    \/ \E s \in Slots : selects(s)
    \/ \E s \in Slots : inserts(s)
    \/ \E s \in Slots : updates(s)
    \/ \E s \in Slots : reads(s)
    \/ \E s \in Slots : commits(s)
    \/ \E s \in Slots : catches(s, TRUE)
    \/ \E s \in Slots : finalizes(s)
    \/ \E s \in Slots : returns(s)

SpecCalls == Init /\ [][NextCalls]_vars

\* one call at a time, with a store that may fail at any step of it
NextPaths ==
    \/ \E error \in {"none", ConfigError, StoreError} :
           Begins(1, Mutating \cup Reading, error)
    \/ selects(1)
    \/ inserts(1)
    \/ updates(1)
    \/ reads(1)
    \/ throws(1)
    \/ commits(1)
    \/ \E rolledBack \in BOOLEAN : catches(1, rolledBack)
    \/ finalizes(1)
    \/ returns(1)

SpecPaths == Init /\ [][NextPaths]_vars

\* -------------------------------------------------- claims on interleaved calls
\* a committed call has already put a later version after row id of its chain
Superseded(T, id) ==
    \E r \in T, q \in T :
        r.ID = id /\ q.HEADER_ID = r.HEADER_ID /\ q.VERSION > r.VERSION

\* C21: two updateComment (or deleteComment) calls on the same live row may
\* both pass the checks before either commits; when the second call reads
\* the row after the first has committed, it fails with InvalidState, so
\* exactly one of the two succeeds.
C21_SecondReaderRejected ==
    [][\A s \in Slots :
          (selects(s) /\ Superseded(COMMENTS, sessions[s].id))
              => sessions'[s].error \in InvalidState]_vars

\* a chain mid-repair: one row already has EDITED_COMMENT_ID = TAIL_ID = the
\* new id while another row of the chain still carries the previous TAIL_ID
MidRepair(shown) ==
    \E r \in shown, q \in shown :
        r[1] = q[1] /\ r[3] # NULL /\ r[3] = r[2] /\ q[2] # r[2]

\* rows of one chain that do not carry the same TAIL_ID
TailsDiffer(shown) == \E r \in shown, q \in shown : r[1] = q[1] /\ r[2] # q[2]

\* C22 as stated: a read that runs while an updateComment has its chain
\* mid-repair observes the chain in that state.
C22_ReadSeesMidRepair ==
    [][\A s \in Slots, o \in Slots :
          (reads(s) /\ sessions[o].op = "update" /\ MidRepair(Shown(View(o))))
              => MidRepair(sessions'[s].seen)]_vars

\* C22: the statements of an updateComment run in one transaction that is
\* committed after the last of them, so no statement of a concurrent
\* getComments or getCommentHistory sees a chain mid-repair: in what a read
\* sees, all rows of a chain carry the same tailId.
C22_ReadSeesRepairedChains ==
    \A s \in Slots : sessions[s].op \in Reading => ~ TailsDiffer(sessions[s].seen)

C22_Witness ==
    \E s \in Slots, o \in Slots :
        /\ sessions[s].op \in Reading
        /\ sessions[s].seen # {}
        /\ sessions[o].op = "update"
        /\ MidRepair(Shown(View(o)))
        /\ \E r \in sessions[s].seen : r[1] = sessions[o].headerId

\* the columns no statement of update / delete assigns on an existing row
Immutable(r) ==
    <<r.ID, r.CONTENT, r.VERSION, r.HEADER_ID, r.PARENT_HEADER_ID, r.HASHED_USER_IP,
      r.HASHED_PASSWORD, r.IS_DELETED, r.CREATED_AT>>

\* C23: no operation changes id, content, version, headerId, parentHeaderId,
\* authorHandle, secretHash, isDeleted or createdAt of a committed row; on
\* existing rows isEdited only goes from 0 to 1, editedCommentId is set once,
\* from null to a value, and a commit leaves the rows of other chains as
\* they were.
C23_FrameOfCommittedRows ==
    [][\A r \in COMMENTS :
          \E q \in COMMENTS' :
              /\ Immutable(q) = Immutable(r)
              /\ r.IS_EDITED = 1 => q.IS_EDITED = 1
              /\ r.EDITED_COMMENT_ID # NULL => q.EDITED_COMMENT_ID = r.EDITED_COMMENT_ID
              /\ \A s \in Slots :
                     (commits(s) /\ r.HEADER_ID # sessions[s].headerId) => q = r]_vars

\* --------------------------------------------------- claims on the paths of a call
\* C24: every comment-service operation that acquired a connection has closed
\* it when it returns or throws, whether it failed a precondition, a
\* statement threw, the rollback threw, or it succeeded: no call ends
\* holding an open connection or uncommitted rows.
C24_ConnectionClosedAtReturn ==
    \A s \in Slots :
        sessions[s].pc \in {"return", "idle"} =>
            /\ sessions[s].connection # "open"
            /\ sessions[s].written = {}

C24_Witness ==
    \E s \in Slots :
        /\ sessions[s].pc = "return"
        /\ sessions[s].op \in Mutating
        /\ sessions[s].newId # NULL
        /\ sessions[s].error = StoreError
        /\ sessions[s].connection = "closed"

\* ------------------------------------------------------- claims on rooms
\* the connection record c is that of the host of a room, on socket ws
HostOn(c, ws) == c.role = "host" /\ c.roomCode # NoRoomCode /\ c.ws = ws

\* C26: whenever the host of a room goes away, by a leave message, by its
\* WebSocket closing or erroring, or by the dead-connection cleanup, the room
\* is deleted from the room store: no room outlives its host's connection.
C26_RoomGoesWithHost ==
    [][\A c \in signalingStore.connections :
          /\ \A s \in sockets :
                 (HostOn(c, s.ws) /\ (onClose(s) \/ handleLeave(s)))
                     => getRoom(roomStore', c.roomCode) = {}
          /\ (\E ws \in Sockets : HostOn(c, ws)) /\ c.clientId \in notOpen(signalingStore, sockets)
               /\ cleanupDeadConnections
                     => getRoom(roomStore', c.roomCode) = {}]_vars

\* C27: a connection is removed from the signaling store only by events of
\* its own socket: when a client has reconnected with the same clientId,
\* the close event of its earlier socket leaves the new connection in the
\* store; and the store never lists a clientId in a room's client set
\* while that client's connection record names another room or none.
C27_RemovedByOwnSocketOnly ==
    [][/\ \A s \in sockets, c \in signalingStore.connections :
              (onClose(s) /\ c.clientId = s.clientId /\ c.ws # s.ws)
                  => c \in signalingStore'.connections
       /\ \A pair \in signalingStore'.roomClients, c \in signalingStore'.connections :
              c.clientId = pair[2] => c.roomCode = pair[1]]_vars

\* C28: each client the signaling store holds in a room with role
\* 'participant' is listed in that room's participants in the room store;
\* so a join refused because the room is full leaves the client
\* unregistered, and a kicked participant is no longer in the room's
\* client set.
C28_ParticipantsListed ==
    \A c \in signalingStore.connections :
        c.role = "participant" =>
            \A room \in getRoom(roomStore, c.roomCode) :
                includes(room.participants, <<c.clientId>>)

\* ------------------------------------------------------------ the room store alone
\* the codes generateRoomCode may draw when only rooms are created, deleted
\* and cleaned up
StoreCodes == {"0001", "0002", "0003"}

NextStore ==
    \/ \E hostId \in Clients, roomCode \in StoreCodes : roomsPOST(hostId, roomCode)
    \/ \E roomCode \in StoreCodes, clientId \in Clients : roomDELETE(roomCode, clientId)
    \/ \E roomCode \in StoreCodes, clientId \in Clients, duration \in Durations :
           allowJoinPOST(roomCode, clientId, duration)
    \/ cleanupExpiredRoomsTimer
    \/ \E room \in roomStore : roomExpires(room)

SpecStore == Init /\ [][NextStore]_vars

\* each host owns at most one unexpired room, and no two rooms share a code
OneRoomPerHost(S) ==
    /\ \A hostId \in Clients : Cardinality(getActiveRoomsByHostId(S, hostId)) <= 1
    /\ \A room \in S, other \in S : room.roomCode = other.roomCode => room = other

\* C29: after any sequence of createRoom, deleteRoom and cleanupExpiredRooms
\* calls each hostId owns at most one unexpired room and all stored rooms
\* have distinct codes; createRoom for a host that owns an unexpired room
\* returns that room and stores no new room.
C29_OneRoomPerHost ==
    [][/\ OneRoomPerHost(roomStore')
       /\ \A hostId \in Clients, roomCode \in StoreCodes :
              (roomsPOST(hostId, roomCode) /\ getActiveRoomsByHostId(roomStore, hostId) # {})
                  => /\ roomStore' = roomStore
                     /\ pruneRoomsByHostId(roomStore, hostId).keep
                            = getActiveRoomsByHostId(roomStore', hostId)]_vars

C29_Witness ==
    \E room \in roomStore, other \in roomStore :
        /\ room.hostId = other.hostId
        /\ room.expired /\ ~ other.expired
        /\ room.roomCode # other.roomCode

\* -------------------------------------------------- the file-backed room store
\* The room service over the RoomStore that keeps its rooms in
\* data/rooms.json: every get, set and delete first reads the file into a
\* new Map of newly built rooms, and set and delete write the Map back.

\* Array.from(map.entries()): the entries of a Map, as a sequence of pairs
RECURSIVE entries(_)
entries(map) ==
    IF map = {} THEN <<>>
    ELSE LET entry == CHOOSE e \in map : TRUE
         IN <<entry>> \o entries(map \ {entry})

serializeRoom(room) == [room EXCEPT !.kickedParticipants = entries(@)]

\* new Map(array): the pairs of the array
deserializeRoom(room) ==
    [room EXCEPT !.kickedParticipants = {@[i] : i \in DOMAIN @}]

loadFromDisk(file) == {deserializeRoom(room) : room \in file}

saveToDisk(rooms) == {serializeRoom(room) : room \in rooms}

\* RoomStore.get: the room of that code in a newly loaded Map, if any
getOnDisk(file, roomCode) == {room \in loadFromDisk(file) : room.roomCode = roomCode}

\* RoomStore.set
setOnDisk(file, roomCode, room) ==
    saveToDisk({r \in loadFromDisk(file) : r.roomCode # roomCode} \cup {room})

\* RoomStore.delete
deleteOnDisk(file, roomCode) ==
    saveToDisk({r \in loadFromDisk(file) : r.roomCode # roomCode})

\* participants.splice(indexOf(participantId), 1)
splice(participants, participantId) ==
    LET index == CHOOSE i \in DOMAIN participants : participants[i] = participantId
    IN [i \in 1..(Len(participants) - 1) |->
            IF i < index THEN participants[i] ELSE participants[i + 1]]

\* Map.set(key, value)
mapSet(map, key, value) == {e \in map : e[1] # key} \cup {<<key, value>>}

removeParticipantOnDisk(file, roomCode, participantId) ==
    IF getOnDisk(file, roomCode) = {} THEN file
    ELSE LET room == CHOOSE r \in getOnDisk(file, roomCode) : TRUE
         IN IF includes(room.participants, <<participantId>>)
            THEN setOnDisk(file, roomCode,
                           [room EXCEPT !.participants = splice(@, participantId)])
            ELSE file

\* kickParticipant: room is the object get returned before removeParticipant
\* loaded, changed and saved an object of its own
kickParticipantOnDisk(file, roomCode, participantId) ==
    IF getOnDisk(file, roomCode) = {} THEN file
    ELSE LET room == CHOOSE r \in getOnDisk(file, roomCode) : TRUE
             removed == removeParticipantOnDisk(file, roomCode, participantId)
         IN setOnDisk(removed, roomCode,
                      [room EXCEPT !.kickedParticipants =
                                       mapSet(@, participantId, room.createdAt)])

isKickedParticipantOnDisk(file, roomCode, participantId) ==
    \E room \in getOnDisk(file, roomCode) :
        <<participantId, room.createdAt>> \in room.kickedParticipants

\* createRoom of the file-backed service, for a host without a room
createRoomOnDisk(hostId, roomCode) ==
    /\ \A room \in loadFromDisk(roomsFile) : room.hostId # hostId /\ room.roomCode # roomCode
    /\ roomClock < MaxRoomClock
    /\ roomClock' = roomClock + 1
    /\ roomsFile' = setOnDisk(roomsFile, roomCode,
           [roomCode |-> roomCode, hostId |-> hostId, createdAt |-> roomClock + 1,
            expired |-> FALSE, allowJoin |-> FALSE, participants |-> <<>>,
            kickedParticipants |-> {}, maxParticipants |-> DefaultMaxParticipants])
    /\ UNCHANGED <<COMMENTS, identity, clock, call, createdSecret, sessions, delivered>>
    /\ UNCHANGED <<roomStore, signalingStore, sockets>>

\* addParticipant of the file-backed service, where it does not throw
addParticipantOnDisk(roomCode, participantId) ==
    /\ \E room \in getOnDisk(roomsFile, roomCode) :
           /\ Len(room.participants) < room.maxParticipants
           /\ roomsFile' =
                IF includes(room.participants, <<participantId>>) THEN roomsFile
                ELSE setOnDisk(roomsFile, roomCode,
                               [room EXCEPT !.participants = Append(@, participantId)])
    /\ UNCHANGED <<COMMENTS, identity, clock, call, createdSecret, sessions, delivered>>
    /\ UNCHANGED <<roomStore, roomClock, signalingStore, sockets>>

removeParticipantCall(roomCode, participantId) ==
    /\ roomsFile' = removeParticipantOnDisk(roomsFile, roomCode, participantId)
    /\ UNCHANGED <<COMMENTS, identity, clock, call, createdSecret, sessions, delivered>>
    /\ UNCHANGED <<roomStore, roomClock, signalingStore, sockets>>

\* kickParticipant throws 'Room not found' without the room
kickParticipantCall(roomCode, participantId) ==
    /\ roomsFile' = kickParticipantOnDisk(roomsFile, roomCode, participantId)
    /\ UNCHANGED <<COMMENTS, identity, clock, call, createdSecret, sessions, delivered>>
    /\ UNCHANGED <<roomStore, roomClock, signalingStore, sockets>>

deleteRoomCall(roomCode) ==
    /\ roomsFile' = deleteOnDisk(roomsFile, roomCode)
    /\ UNCHANGED <<COMMENTS, identity, clock, call, createdSecret, sessions, delivered>>
    /\ UNCHANGED <<roomStore, roomClock, signalingStore, sockets>>

NextFile ==
    \/ \E hostId \in Clients, roomCode \in StoreCodes : createRoomOnDisk(hostId, roomCode)
    \/ \E roomCode \in StoreCodes, participantId \in Clients :
           addParticipantOnDisk(roomCode, participantId)
    \/ \E roomCode \in StoreCodes, participantId \in Clients :
           removeParticipantCall(roomCode, participantId)
    \/ \E roomCode \in StoreCodes, participantId \in Clients :
           kickParticipantCall(roomCode, participantId)
    \/ \E roomCode \in StoreCodes : deleteRoomCall(roomCode)

SpecFile == Init /\ [][NextFile]_vars

\* C30: with the file-backed RoomStore, kickParticipant(roomCode, p) leaves
\* the persisted room with p removed from participants and recorded in
\* kickedParticipants with the room's createdAt: right afterwards the room
\* read back does not list p and isKickedParticipant(roomCode, p) is true.
C30_KickPersisted ==
    [][\A roomCode \in StoreCodes, p \in Clients :
          (kickParticipantCall(roomCode, p) /\ getOnDisk(roomsFile, roomCode) # {})
              => /\ \A room \in getOnDisk(roomsFile', roomCode) :
                        ~ includes(room.participants, <<p>>)
                 /\ isKickedParticipantOnDisk(roomsFile', roomCode, p)]_vars

\* ------------------------------------------------------------ the signaling relay
\* the room codes in use while messages are relayed
RelayCodes == {"0001", "0002"}

\* variant: the receiver's room is not compared with the message's
receiverInRoom_Unchecked(receiver, roomCode) == TRUE

\* if (receiver.roomCode !== roomCode) sendError
receiverInRoom(receiver, roomCode) == receiver.roomCode = roomCode

\* a 'signaling' message {roomCode, data: {type, to}} on socket s; NoRoomCode
\* and NoClient are a message without roomCode, or without data.type or
\* data.to.  Every refusal is a sendError to the sender.
handleSignaling(s, roomCode, to) ==
    /\ handleMessage(s)
    /\ LET senderId == s.clientId
           sender == CHOOSE c \in connectionOf(signalingStore, senderId) : TRUE
           receivers == connectionOf(signalingStore, to)
           forwards ==
               /\ roomCode # NoRoomCode /\ to # NoClient
               /\ sender.roomCode = roomCode
               /\ \E receiver \in receivers : receiverInRoom(receiver, roomCode)
       IN IF ~ forwards
          THEN /\ signalingStore' = sendToClient(signalingStore, sockets, senderId)
               /\ UNCHANGED delivered
          ELSE LET receiver == CHOOSE c \in receivers : TRUE
               IN /\ delivered' =
                       IF \E k \in sockets : k.ws = receiver.ws /\ k.readyState = "OPEN"
                       THEN [ws |-> receiver.ws, from |-> senderId, roomCode |-> roomCode]
                       ELSE delivered
                  /\ UNCHANGED signalingStore
    /\ UNCHANGED <<roomStore, roomClock, sockets>>
    /\ UNCHANGED <<COMMENTS, identity, clock, call, createdSecret, sessions, roomsFile>>

\* rooms of two hosts, their sockets, registrations and joins, and the relay
NextRelay ==
    \/ \E hostId \in Clients, roomCode \in RelayCodes : roomsPOST(hostId, roomCode)
    \/ \E roomCode \in RelayCodes, clientId \in Clients : allowJoinPOST(roomCode, clientId, 60)
    \/ \E ws \in Sockets, clientId \in Clients : handleConnection(ws, clientId)
    \/ \E s \in sockets : socketCloses(s)
    \/ \E s \in sockets : onClose(s)
    \/ \E s \in sockets, roomCode \in RelayCodes : handleRegister(s, roomCode, "host")
    \/ \E s \in sockets, roomCode \in RelayCodes : handleJoin(s, roomCode, "participant")
    \/ \E s \in sockets, roomCode \in RelayCodes \cup {NoRoomCode}, to \in Clients \cup {NoClient} :
           handleSignaling(s, roomCode, to)

SpecRelay == Init /\ [][NextRelay]_vars

\* the client is registered in the room: its connection record names the
\* room and the room's client set lists it
RegisteredIn(G, clientId, roomCode) ==
    /\ <<roomCode, clientId>> \in G.roomClients
    /\ \E c \in connectionOf(G, clientId) : c.roomCode = roomCode

\* C25: the relay forwards a signaling message to the receiver named in
\* data.to only if sender and receiver are both registered in the room the
\* message names and the receiver's socket is OPEN; the forwarded message
\* goes to the receiver's socket and carries the sender's clientId as from.
C25_RelayedWithinRoom ==
    [][delivered' # delivered =>
          \E s \in sockets, receiver \in signalingStore.connections :
              /\ handleSignaling(s, delivered'.roomCode, receiver.clientId)
              /\ delivered'.from = s.clientId
              /\ delivered'.ws = receiver.ws
              /\ RegisteredIn(signalingStore, s.clientId, delivered'.roomCode)
              /\ RegisteredIn(signalingStore, receiver.clientId, delivered'.roomCode)
              /\ \E k \in sockets : k.ws = receiver.ws /\ k.readyState = "OPEN"]_vars

C25_Witness ==
    /\ delivered # NoDelivery
    /\ delivered.from = "h"
    /\ \E c \in signalingStore.connections :
           c.ws = delivered.ws /\ c.clientId = "p" /\ c.role = "participant"

====
